---- MODULE Spec2Model ----
(***************************************************************************)
(* A model of bevyex_libs: the css_parser module (value decoders,          *)
(* parse_rule, parse_stylesheet over a token cursor) and the cascade of    *)
(* the html_ui_builder module (compute_element_styles).                    *)
(*                                                                         *)
(* The token cursor.  parser.rs drives a cssparser-style `Parser` through  *)
(* `input.next()`.  The model keeps the style-sheet text as the flat       *)
(* sequence of tokens that `next()` delivers (whitespace and comments are  *)
(* skipped by `next()` and so never appear) and the cursor as an index     *)
(* `pos` into it; `next()` returns tokens[pos] and advances, or fails with *)
(* the lexer's end-of-input error once pos > Len(tokens).                  *)
(* `input.reset_to(token)` un-reads the token just read, and               *)
(* `input.try_parse(f)` yields Some(v) when f succeeds and None with the   *)
(* cursor restored when f fails (the only reading under which the          *)
(* Option patterns of parse_ui_rect type-check).                           *)
(***************************************************************************)
EXTENDS Integers, Sequences, FiniteSets, TLC

(***************************************************************************)
(* Tokens.  k is the token kind, s its text (identifier, unit, string),    *)
(* n its numeric value, h the characters of a hash token as digit values   *)
(* (0..15 a hexadecimal digit, NotHex any other character).                *)
(***************************************************************************)
Tok(k, s, n, h) == [k |-> k, s |-> s, n |-> n, h |-> h]
StartRule == Tok("StartRule", "", 0, <<>>)
Ident(s) == Tok("Ident", s, 0, <<>>)
QuotedString(s) == Tok("QuotedString", s, 0, <<>>)
AtKeyword(s) == Tok("AtKeyword", s, 0, <<>>)
Colon == Tok("Colon", ":", 0, <<>>)
Semicolon == Tok("Semicolon", ";", 0, <<>>)
CloseCurlyBrace == Tok("CloseCurlyBrace", "}", 0, <<>>)
OpenCurlyBrace == Tok("OpenCurlyBrace", "{", 0, <<>>)
Delim(s) == Tok("Delim", s, 0, <<>>)
Comma == Tok("Comma", ",", 0, <<>>)
Dimension(n, unit) == Tok("Dimension", unit, n, <<>>)
Number(n) == Tok("Number", "", n, <<>>)
Percentage(n) == Tok("Percentage", "", n, <<>>)
Hash(h) == Tok("Hash", "", 0, h)
NotHex == 16

\* str::to_lowercase on the identifiers and units the model's sheets use.
ToLowercase(s) ==
    CASE s = "WIDTH" -> "width"
      [] s = "PX" -> "px"
      [] s = "AUTO" -> "auto"
      [] OTHER -> s

(***************************************************************************)
(* Values.                                                                 *)
(***************************************************************************)
None == [some |-> FALSE]
Some(v) == [some |-> TRUE, v |-> v]

Px(n) == [t |-> "Px", n |-> n]
Percent(n) == [t |-> "Percent", n |-> n]
ValAuto == [t |-> "Auto", n |-> 0]
ValUndefined == [t |-> "Undefined", n |-> 0]
\* Val::default(), the value of every edge of UiRect::default()
ValDefault == [t |-> "Default", n |-> 0]

\* UiRect::new(left, right, top, bottom)
UiRectNew(left, right, top, bottom) ==
    [left |-> left, right |-> right, top |-> top, bottom |-> bottom]
UiRectAll(v) == UiRectNew(v, v, v, v)
UiRectDefault == UiRectAll(ValDefault)

\* Color channels as the u8 numerators of the code's x / 255.0
Rgba(r, g, b, a) == [r |-> r, g |-> g, b |-> b, a |-> a]

\* StyleProperties::default()
StylePropertiesDefault ==
    [display |-> None, position_type |-> None, direction |-> None,
     flex_direction |-> None, flex_wrap |-> None, align_items |-> None,
     align_self |-> None, align_content |-> None, justify_content |-> None,
     position |-> UiRectDefault, margin |-> UiRectDefault,
     padding |-> UiRectDefault, border |-> UiRectDefault,
     width |-> None, height |-> None, min_width |-> None, max_width |-> None,
     min_height |-> None, max_height |-> None, aspect_ratio |-> None,
     overflow |-> None, background_color |-> None, custom_property |-> None]

(***************************************************************************)
(* Results of a decoder: kind is "Ok" or the error kind, pos the cursor    *)
(* the call leaves behind, val the decoded value.                          *)
(***************************************************************************)
Ok(p, v) == [kind |-> "Ok", pos |-> p, val |-> v]
Err(kind, p) == [kind |-> kind, pos |-> p, val |-> None]

\* input.next() at the end of the input: Err(e), the cursor does not move
AtEnd(toks, p) == p > Len(toks)

\* a variant of parse_value: the unit of a dimension is not looked at
parse_value_AnyUnit(toks, p) ==
    IF AtEnd(toks, p) THEN Err("EndOfInput", p)
    ELSE LET t == toks[p] IN
         CASE t.k = "Dimension" ->
                (CASE ToLowercase(t.s) = "%" -> Ok(p + 1, Percent(t.n))
                   [] OTHER -> Ok(p + 1, Px(t.n)))
           [] t.k = "Number" -> Ok(p + 1, Px(t.n))
           [] t.k = "Ident" ->
                (CASE ToLowercase(t.s) = "auto" -> Ok(p + 1, ValAuto)
                   [] ToLowercase(t.s) = "undefined" -> Ok(p + 1, ValUndefined)
                   [] OTHER -> Err("InvalidToken", p + 1))
           [] t.k = "Percentage" -> Ok(p + 1, Percent(t.n))
           [] OTHER -> Err("UnexpectedToken", p + 1)

\* parse_value
parse_value(toks, p) ==
    IF AtEnd(toks, p) THEN Err("EndOfInput", p)
    ELSE LET t == toks[p] IN
         CASE t.k = "Dimension" ->
                (CASE ToLowercase(t.s) = "px" -> Ok(p + 1, Px(t.n))
                   [] ToLowercase(t.s) = "%" -> Ok(p + 1, Percent(t.n))
                   [] OTHER -> Err("InvalidToken", p + 1))
           [] t.k = "Number" -> Ok(p + 1, Px(t.n))
           [] t.k = "Ident" ->
                (CASE ToLowercase(t.s) = "auto" -> Ok(p + 1, ValAuto)
                   [] ToLowercase(t.s) = "undefined" -> Ok(p + 1, ValUndefined)
                   [] OTHER -> Err("InvalidToken", p + 1))
           [] t.k = "Percentage" -> Ok(p + 1, Percent(t.n))
           [] OTHER -> Err("UnexpectedToken", p + 1)

\* u8::from_str_radix(&hex[i..i+2], 16): the value, or -1 where it is Err
FromStrRadix16(h, i) ==
    IF h[i] < 16 /\ h[i + 1] < 16 THEN 16 * h[i] + h[i + 1] ELSE -1

\* parse_color; kind "Panic" is the unwrap() of a failed from_str_radix
parse_color(toks, p) ==
    IF AtEnd(toks, p) THEN Err("EndOfInput", p)
    ELSE LET t == toks[p] IN
         CASE t.k = "Ident" ->
                (CASE ToLowercase(t.s) = "red" -> Ok(p + 1, Rgba(255, 0, 0, 255))
                   [] ToLowercase(t.s) = "green" -> Ok(p + 1, Rgba(0, 255, 0, 255))
                   [] ToLowercase(t.s) = "blue" -> Ok(p + 1, Rgba(0, 0, 255, 255))
                   [] ToLowercase(t.s) = "white" -> Ok(p + 1, Rgba(255, 255, 255, 255))
                   [] ToLowercase(t.s) = "black" -> Ok(p + 1, Rgba(0, 0, 0, 255))
                   [] ToLowercase(t.s) = "transparent" -> Ok(p + 1, Rgba(0, 0, 0, 0))
                   [] OTHER -> Err("InvalidToken", p + 1))
           [] t.k = "Hash" ->
                (IF Len(t.h) = 6 THEN
                    LET r == FromStrRadix16(t.h, 1)
                        g == FromStrRadix16(t.h, 3)
                        b == FromStrRadix16(t.h, 5)
                    IN IF r < 0 \/ g < 0 \/ b < 0 THEN Err("Panic", p + 1)
                       ELSE Ok(p + 1, Rgba(r, g, b, 255))
                 ELSE IF Len(t.h) = 8 THEN
                    LET r == FromStrRadix16(t.h, 1)
                        g == FromStrRadix16(t.h, 3)
                        b == FromStrRadix16(t.h, 5)
                        a == FromStrRadix16(t.h, 7)
                    IN IF r < 0 \/ g < 0 \/ b < 0 \/ a < 0 THEN Err("Panic", p + 1)
                       ELSE Ok(p + 1, Rgba(r, g, b, a))
                 ELSE Err("InvalidToken", p + 1))
           [] OTHER -> Err("UnexpectedToken", p + 1)

\* a variant of try_parse: a failed probe leaves the cursor where f left it
try_parse_Consuming(r, p) ==
    IF r.kind = "Ok" THEN Ok(r.pos, Some(r.val)) ELSE Ok(r.pos, None)

\* input.try_parse(f) called with the cursor at p, r being what f returns:
\* Some(v) and the cursor after the value, or None and the cursor where it was
try_parse(r, p) ==
    IF r.kind = "Ok" THEN Ok(r.pos, Some(r.val)) ELSE Ok(p, None)

\* input.try_parse(parse_value)
try_parse_value(toks, p) == try_parse(parse_value(toks, p), p)

\* a variant of MatchRect: the four values handed to UiRect::new in the
\* order they were written
MatchRect_WrittenOrder(first, second, third, fourth, p) ==
    CASE ~second.some /\ ~third.some /\ ~fourth.some ->
           Ok(p, UiRectAll(first))
      [] second.some /\ ~third.some /\ ~fourth.some ->
           Ok(p, UiRectNew(first, second.v, first, second.v))
      [] second.some /\ third.some /\ ~fourth.some ->
           Ok(p, UiRectNew(first, second.v, third.v, second.v))
      [] second.some /\ third.some /\ fourth.some ->
           Ok(p, UiRectNew(first, second.v, third.v, fourth.v))
      [] OTHER -> Err("UnexpectedToken", p)

\* `match (second, third, fourth) { .. }` of parse_ui_rect, the cursor at p
MatchRect(first, second, third, fourth, p) ==
    CASE ~second.some /\ ~third.some /\ ~fourth.some ->
           Ok(p, UiRectAll(first))
      [] second.some /\ ~third.some /\ ~fourth.some ->
           Ok(p, UiRectNew(first, second.v, first, second.v))
      [] second.some /\ third.some /\ ~fourth.some ->
           Ok(p, UiRectNew(first, second.v, third.v, second.v))
      [] second.some /\ third.some /\ fourth.some ->
           Ok(p, [left |-> fourth.v, right |-> second.v,
                  top |-> first, bottom |-> third.v])
      [] OTHER -> Err("UnexpectedToken", p)

\* parse_ui_rect
parse_ui_rect(toks, p) ==
    LET r1 == parse_value(toks, p)
        r2 == try_parse_value(toks, r1.pos)
        r3 == try_parse_value(toks, r2.pos)
        r4 == try_parse_value(toks, r3.pos)
    IN IF r1.kind # "Ok" THEN r1
       ELSE MatchRect(r1.val, r2.val, r3.val, r4.val, r4.pos)

(***************************************************************************)
(* parse_rule.  KeywordTable gives, for each property that parse_rule      *)
(* decodes from one identifier, the identifiers its match accepts, each    *)
(* with the enum variant it maps to.                                       *)
(***************************************************************************)
KeywordTable(name) ==
    CASE name = "display" -> ("none" :> "None" @@ "flex" :> "Flex")
      [] name = "position-type" ->
           ("absolute" :> "Absolute" @@ "relative" :> "Relative")
      [] name = "flex-direction" ->
           ("row" :> "Row" @@ "column" :> "Column"
            @@ "row-reverse" :> "RowReverse"
            @@ "column-reverse" :> "ColumnReverse")
      [] name = "flex-wrap" ->
           ("nowrap" :> "NoWrap" @@ "wrap" :> "Wrap"
            @@ "wrap-reverse" :> "WrapReverse")
      [] name = "align-items" ->
           ("flex-start" :> "FlexStart" @@ "flex-end" :> "FlexEnd"
            @@ "center" :> "Center" @@ "baseline" :> "Baseline"
            @@ "stretch" :> "Stretch")
      [] name = "align-self" ->
           ("auto" :> "Auto" @@ "flex-start" :> "FlexStart"
            @@ "flex-end" :> "FlexEnd" @@ "center" :> "Center"
            @@ "baseline" :> "Baseline" @@ "stretch" :> "Stretch")
      [] name = "align-content" ->
           ("flex-start" :> "FlexStart" @@ "flex-end" :> "FlexEnd"
            @@ "center" :> "Center" @@ "space-between" :> "SpaceBetween"
            @@ "space-around" :> "SpaceAround" @@ "stretch" :> "Stretch")
      [] name = "justify-content" ->
           ("flex-start" :> "FlexStart" @@ "flex-end" :> "FlexEnd"
            @@ "center" :> "Center" @@ "space-between" :> "SpaceBetween"
            @@ "space-around" :> "SpaceAround"
            @@ "space-evenly" :> "SpaceEvenly")
      [] name = "overflow" ->
           ("visible" :> "Visible" @@ "hidden" :> "Hidden"
            @@ "scroll" :> "Scroll")

KeywordProps ==
    {"display", "position-type", "flex-direction", "flex-wrap", "align-items",
     "align-self", "align-content", "justify-content", "overflow"}
RectProps == {"position", "margin", "padding", "border"}
ValueProps ==
    {"width", "height", "min-width", "max-width", "min-height", "max-height"}
\* the arms of parse_rule's match on the lower-cased property name
RecognizedProps ==
    KeywordProps \cup RectProps \cup ValueProps
      \cup {"aspect-ratio", "background-color", "custom-property"}

\* the StyleProperties field an arm of parse_rule assigns
Field(name) ==
    CASE name = "position-type" -> "position_type"
      [] name = "flex-direction" -> "flex_direction"
      [] name = "flex-wrap" -> "flex_wrap"
      [] name = "align-items" -> "align_items"
      [] name = "align-self" -> "align_self"
      [] name = "align-content" -> "align_content"
      [] name = "justify-content" -> "justify_content"
      [] name = "min-width" -> "min_width"
      [] name = "max-width" -> "max_width"
      [] name = "min-height" -> "min_height"
      [] name = "max-height" -> "max_height"
      [] name = "aspect-ratio" -> "aspect_ratio"
      [] name = "background-color" -> "background_color"
      [] name = "custom-property" -> "custom_property"
      [] OTHER -> name

\* the keyword arms ("display" .. "justify-content", "overflow")
parse_keyword(toks, p, name) ==
    IF AtEnd(toks, p) THEN Err("EndOfInput", p)
    ELSE LET t == toks[p] IN
         IF t.k = "Ident" THEN
            IF ToLowercase(t.s) \in DOMAIN KeywordTable(name)
            THEN Ok(p + 1, KeywordTable(name)[ToLowercase(t.s)])
            ELSE Err("InvalidToken", p + 1)
         ELSE Err("UnexpectedToken", p + 1)

\* the "aspect-ratio" arm
parse_aspect_ratio(toks, p) ==
    IF AtEnd(toks, p) THEN Err("EndOfInput", p)
    ELSE IF toks[p].k = "Number" THEN Ok(p + 1, toks[p].n)
    ELSE Err("UnexpectedToken", p + 1)

\* the "custom-property" arm
parse_custom_property(toks, p) ==
    IF AtEnd(toks, p) THEN Err("EndOfInput", p)
    ELSE IF toks[p].k \in {"Ident", "QuotedString"} THEN Ok(p + 1, toks[p].s)
    ELSE Err("UnexpectedToken", p + 1)

\* `while let Ok(t) = input.next() { if t is one of kinds { break } }`:
\* the cursor after the first token of one of the kinds at or after p, or the
\* end of the input
SkipPast(toks, p, kinds) ==
    LET hits == {i \in p..Len(toks) : toks[i].k \in kinds} IN
    IF hits = {} THEN Len(toks) + 1
    ELSE (CHOOSE i \in hits : \A j \in hits : i <= j) + 1

\* the value of a recognized property, as the slot content its arm assigns:
\* the rect itself for the box-edge properties, Some(value) for the others
SlotContent(r, name) ==
    IF r.kind # "Ok" \/ name \in RectProps THEN r ELSE Ok(r.pos, Some(r.val))

DecodeSlot(toks, p, name) ==
    SlotContent(CASE name \in KeywordProps -> parse_keyword(toks, p, name)
                  [] name \in RectProps -> parse_ui_rect(toks, p)
                  [] name \in ValueProps -> parse_value(toks, p)
                  [] name = "aspect-ratio" -> parse_aspect_ratio(toks, p)
                  [] name = "background-color" -> parse_color(toks, p)
                  [] name = "custom-property" -> parse_custom_property(toks, p),
                name)

\* rules.entry(selector).or_insert_with(StyleProperties::default)
EntryOrInsert(rs, sel) ==
    IF sel \in DOMAIN rs THEN rs
    ELSE [s \in DOMAIN rs \cup {sel} |->
            IF s = sel THEN StylePropertiesDefault ELSE rs[s]]

RuleResult(kind, p, rs) == [kind |-> kind, pos |-> p, rules |-> rs]

\* a variant of AssignSlot: a failed decode returns the slot to its default
AssignSlot_ClearOnError(d, rs1, sel, name) ==
    IF d.kind = "Ok"
    THEN RuleResult("Ok", d.pos, [rs1 EXCEPT ![sel][Field(name)] = d.val])
    ELSE RuleResult(d.kind, d.pos,
                    [rs1 EXCEPT ![sel][Field(name)] =
                                   StylePropertiesDefault[Field(name)]])

\* the arm of a recognized property: the decoded slot content d is assigned,
\* or the decoder's error returned (`?`)
AssignSlot(d, rs1, sel, name) ==
    IF d.kind = "Ok"
    THEN RuleResult("Ok", d.pos, [rs1 EXCEPT ![sel][Field(name)] = d.val])
    ELSE RuleResult(d.kind, d.pos, rs1)

\* the arms of `match property_name.to_lowercase().as_str()`, the cursor at p
\* after the colon, rs1 the map with the entry of sel
MatchProperty(toks, p, sel, rs1, name) ==
    IF name \in RecognizedProps
    THEN AssignSlot(DecodeSlot(toks, p, name), rs1, sel, name)
    ELSE RuleResult("Ok", SkipPast(toks, p, {"Semicolon"}), rs1)

\* parse_rule(input, selector, rules)
parse_rule(toks, p, sel, rs) ==
    IF AtEnd(toks, p) THEN RuleResult("EndOfInput", p, rs)
    ELSE IF toks[p].k = "Ident" THEN
        IF AtEnd(toks, p + 1) THEN RuleResult("EndOfInput", p + 1, rs)
        ELSE IF toks[p + 1].k = "Colon" THEN
            MatchProperty(toks, p + 2, sel, EntryOrInsert(rs, sel),
                          ToLowercase(toks[p].s))
        ELSE IF toks[p + 1].k = "CloseCurlyBrace"
             THEN RuleResult("Ok", p + 2, rs)
        ELSE RuleResult("UnexpectedToken", p + 2, rs)
    ELSE IF toks[p].k = "CloseCurlyBrace" THEN RuleResult("Ok", p + 1, rs)
    ELSE RuleResult("UnexpectedToken", p + 1, rs)

(***************************************************************************)
(* Style-sheet texts.  A sheet is a sequence of rules                      *)
(* `selector { declaration* }`; a rule is a selector and a sequence of     *)
(* declaration texts.  Tokenize gives the token stream of a sheet: for     *)
(* each rule the rule-start token, the tokens of the selector, the opening *)
(* brace, the tokens of the declarations and the closing brace.            *)
(***************************************************************************)
MaxRules == 2
MaxDecls == 3

IDHash(s) == Tok("IDHash", s, 0, <<>>)

\* the tokens of a selector text
SelectorTokens(sel) ==
    CASE sel = ".box" -> <<Delim("."), Ident("box")>>
      [] sel = "#main" -> <<IDHash("main")>>
      [] sel = ":hover" -> <<Colon, Ident("hover")>>
      [] OTHER -> <<Ident(sel)>>

\* the tokens of a declaration text
DeclTokens(d) ==
    CASE d = "width: 10px;" ->
           <<Ident("width"), Colon, Dimension(10, "px"), Semicolon>>
      [] d = "height: 20px;" ->
           <<Ident("height"), Colon, Dimension(20, "px"), Semicolon>>
      [] d = "height: 20px" ->
           <<Ident("height"), Colon, Dimension(20, "px")>>
      [] d = "width: 5em;" ->
           <<Ident("width"), Colon, Dimension(5, "em"), Semicolon>>
      [] d = "width: ;" -> <<Ident("width"), Colon, Semicolon>>
      [] d = "width:" -> <<Ident("width"), Colon>>
      [] d = "width" -> <<Ident("width")>>
      [] d = "width 10px;" ->
           <<Ident("width"), Dimension(10, "px"), Semicolon>>
      [] d = "unknown-prop: whatever;" ->
           <<Ident("unknown-prop"), Colon, Ident("whatever"), Semicolon>>
      [] d = "unknown-prop: whatever" ->
           <<Ident("unknown-prop"), Colon, Ident("whatever")>>
      [] d = "margin: 1px 2px;" ->
           <<Ident("margin"), Colon, Dimension(1, "px"), Dimension(2, "px"),
             Semicolon>>
      [] d = "margin: 1px 2px 3px;" ->
           <<Ident("margin"), Colon, Dimension(1, "px"), Dimension(2, "px"),
             Dimension(3, "px"), Semicolon>>
      [] d = "width: 30px;" ->
           <<Ident("width"), Colon, Dimension(30, "px"), Semicolon>>
      [] d = "margin: 3px 5em;" ->
           <<Ident("margin"), Colon, Dimension(3, "px"), Dimension(5, "em"),
             Semicolon>>
      [] d = "background-color: #ff0000;" ->
           <<Ident("background-color"), Colon, Hash(<<15, 15, 0, 0, 0, 0>>),
             Semicolon>>
      [] d = "background-color: #fff;" ->
           <<Ident("background-color"), Colon, Hash(<<15, 15, 15>>),
             Semicolon>>

RECURSIVE Flatten(_)
Flatten(ss) == IF ss = <<>> THEN <<>> ELSE Head(ss) \o Flatten(Tail(ss))

RuleTokens(r) ==
    <<StartRule>> \o SelectorTokens(r.sel) \o <<OpenCurlyBrace>>
      \o Flatten([i \in 1..Len(r.decls) |-> DeclTokens(r.decls[i])])
      \o <<CloseCurlyBrace>>

Tokenize(sh) == Flatten([i \in 1..Len(sh) |-> RuleTokens(sh[i])])

\* the sheets of at most MaxRules rules with selectors in Sels, each of at
\* most MaxDecls declarations in Decls
SheetsOver(Sels, Decls) ==
    LET Bodies == UNION {[1..n -> Decls] : n \in 0..MaxDecls}
        Rules == [sel : Sels, decls : Bodies]
    IN UNION {[1..n -> Rules] : n \in 1..MaxRules}

(***************************************************************************)
(* parse_stylesheet.  A parser state is the cursor pos, the map rules the  *)
(* caller passed, the selector of the rule body being scanned, and pc, the *)
(* loop the call is in: "top" the top-level loop, "body" the rule body     *)
(* loop, "done" after the call returned, "panic" after a panic.  calls     *)
(* lists the calls of parse_rule made so far: the cursor before (at) and   *)
(* after (end) the call, the selector passed and the kind returned.        *)
(***************************************************************************)
ParserState(p, c, sel, rs, cs) ==
    [pos |-> p, pc |-> c, selector |-> sel, rules |-> rs, calls |-> cs]

EmptyRules == [s \in {} |-> StylePropertiesDefault]

\* the selector read after Token::StartRule at cursor p: ok is FALSE where
\* the code takes `continue`
ReadSelector(toks, p) ==
    IF AtEnd(toks, p) THEN [ok |-> FALSE, pos |-> p, sel |-> ""]
    ELSE IF toks[p].k \in {"Ident", "QuotedString"}
         THEN [ok |-> TRUE, pos |-> p + 1, sel |-> toks[p].s]
    ELSE IF toks[p].k = "Colon" THEN
         IF AtEnd(toks, p + 1) THEN [ok |-> FALSE, pos |-> p + 1, sel |-> ""]
         ELSE IF toks[p + 1].k \in {"Ident", "QuotedString"}
              THEN [ok |-> TRUE, pos |-> p + 2, sel |-> ":" \o toks[p + 1].s]
         ELSE [ok |-> FALSE, pos |-> p + 2, sel |-> ""]
    ELSE [ok |-> FALSE, pos |-> p + 1, sel |-> ""]

\* the arm Token::StartRule, r the selector read: the rule body loop is
\* entered, or `continue` taken
EnterRule(st, r) ==
    [st EXCEPT !.pos = r.pos, !.selector = r.sel,
               !.pc = IF r.ok THEN "body" ELSE "top"]

\* a variant of TopLevelStep: a token that starts neither a rule nor an
\* at-rule is looked at and left in the stream
TopLevelStep_NoAdvance(toks, st) ==
    IF AtEnd(toks, st.pos) THEN [st EXCEPT !.pc = "done"]
    ELSE IF toks[st.pos].k = "StartRule" THEN
        EnterRule(st, ReadSelector(toks, st.pos + 1))
    ELSE IF toks[st.pos].k = "AtKeyword" THEN
        [st EXCEPT !.pos = SkipPast(toks, st.pos + 1, {"CloseCurlyBrace"})]
    ELSE st

\* one iteration of the top-level loop, from a state with pc = "top"
TopLevelStep(toks, st) ==
    IF AtEnd(toks, st.pos) THEN [st EXCEPT !.pc = "done"]
    ELSE IF toks[st.pos].k = "StartRule" THEN
        EnterRule(st, ReadSelector(toks, st.pos + 1))
    ELSE IF toks[st.pos].k = "AtKeyword" THEN
        [st EXCEPT !.pos = SkipPast(toks, st.pos + 1, {"CloseCurlyBrace"})]
    ELSE [st EXCEPT !.pos = st.pos + 1]

\* the recovery of the rule body loop after parse_rule returned kind with
\* the cursor at p
Recover(toks, p, kind) ==
    IF kind \in {"UnexpectedToken", "InvalidToken"}
    THEN SkipPast(toks, p, {"Semicolon", "CloseCurlyBrace"})
    ELSE p

\* the `_` arm of the rule body loop after parse_rule returned r: the call
\* is recorded, and the loop recovers, goes on or is left
AfterRule(toks, st, r) ==
    LET call == [at |-> st.pos, end |-> r.pos, sel |-> st.selector,
                 kind |-> r.kind]
        st1 == [st EXCEPT !.rules = r.rules,
                          !.calls = Append(st.calls, call),
                          !.pos = Recover(toks, r.pos, r.kind)]
    IN IF r.kind \in {"Ok", "UnexpectedToken", "InvalidToken"} THEN st1
       ELSE IF r.kind = "Panic" THEN [st1 EXCEPT !.pc = "panic"]
       ELSE [st1 EXCEPT !.pc = "top", !.selector = ""]

\* one iteration of the rule body loop, from a state with pc = "body"
RuleBodyStep(toks, st) ==
    IF AtEnd(toks, st.pos) THEN [st EXCEPT !.pc = "top", !.selector = ""]
    ELSE IF toks[st.pos].k = "CloseCurlyBrace" THEN
        [st EXCEPT !.pos = st.pos + 1, !.pc = "top", !.selector = ""]
    ELSE IF toks[st.pos].k = "Semicolon" THEN [st EXCEPT !.pos = st.pos + 1]
    ELSE AfterRule(toks, st,
                   parse_rule(toks, st.pos, st.selector, st.rules))

\* the state in which the call that is in state st ends
RECURSIVE RunFrom(_, _)
RunFrom(toks, st) ==
    IF st.pc = "top" THEN RunFrom(toks, TopLevelStep(toks, st))
    ELSE IF st.pc = "body" THEN RunFrom(toks, RuleBodyStep(toks, st))
    ELSE st

\* a variant of parse_stylesheet: the call starts inside a rule body of the
\* selector div, as if parser state were kept from an earlier call
parse_stylesheet_StaleState(toks, rs) ==
    RunFrom(toks, ParserState(1, "body", "div", rs, <<>>))

\* parse_stylesheet(css, rules): the state in which the call ends
parse_stylesheet(toks, rs) ==
    RunFrom(toks, ParserState(1, "top", "", rs, <<>>))

(***************************************************************************)
(* compute_element_styles (html_ui_builder).  A CssStyleSheet is the       *)
(* sequence of its CssRule_ records, each a selector string and a map      *)
(* from property names to values.                                          *)
(***************************************************************************)
EmptyMap == [q \in {} |-> 0]

\* a variant of InsertAll: the rule's map replaces the merged map
InsertAll_WholeRecord(computed, properties) == properties

\* `for (prop, value) in &rule.properties { computed.insert(prop, value) }`
InsertAll(computed, properties) ==
    [q \in DOMAIN computed \cup DOMAIN properties |->
       IF q \in DOMAIN properties THEN properties[q] ELSE computed[q]]

\* `for rule in &stylesheet.rules { if rule.selector == sel { ... } }`,
\* from rule i on
RECURSIVE ApplySelector(_, _, _, _)
ApplySelector(computed, rs, sel, i) ==
    IF i > Len(rs) THEN computed
    ELSE ApplySelector(IF rs[i].selector = sel
                       THEN InsertAll(computed, rs[i].properties)
                       ELSE computed,
                       rs, sel, i + 1)

\* a variant of ApplyClasses: the rules in sheet order, each applied when it
\* matches any class of the element
RECURSIVE ApplyClasses_SheetOrder(_, _, _, _)
ApplyClasses_SheetOrder(computed, rs, classes, k) ==
    IF k > Len(rs) THEN computed
    ELSE ApplyClasses_SheetOrder(
           IF \E c \in 1..Len(classes) : rs[k].selector = "." \o classes[c]
           THEN InsertAll(computed, rs[k].properties)
           ELSE computed,
           rs, classes, k + 1)

\* `for class in classes { ... }`, from class k on
RECURSIVE ApplyClasses(_, _, _, _)
ApplyClasses(computed, rs, classes, k) ==
    IF k > Len(classes) THEN computed
    ELSE ApplyClasses(ApplySelector(computed, rs, "." \o classes[k], 1),
                      rs, classes, k + 1)

\* a variant of compute_element_styles: id rules first, tag rules last
compute_element_styles_IdFirst(tag, id, classes, rs) ==
    LET byId == IF id.some THEN ApplySelector(EmptyMap, rs, "#" \o id.v, 1)
                ELSE EmptyMap
        byClass == ApplyClasses(byId, rs, classes, 1)
    IN ApplySelector(byClass, rs, tag, 1)

\* compute_element_styles(tag, id, classes, stylesheet)
compute_element_styles(tag, id, classes, rs) ==
    LET byTag == ApplySelector(EmptyMap, rs, tag, 1)
        byClass == ApplyClasses(byTag, rs, classes, 1)
    IN IF id.some THEN ApplySelector(byClass, rs, "#" \o id.v, 1)
       ELSE byClass

(***************************************************************************)
(* The state.  For parse_stylesheet: sheet is the style-sheet text given   *)
(* to the call, tokens its token stream, and pos, pc, selector, rules,     *)
(* calls the parser state of the call.  For compute_element_styles:        *)
(* stylesheet is the CssStyleSheet, element the tag, id and classes of the *)
(* element, computed the merged map once the function has returned.        *)
(* For a value decoder called alone: tokens is its input and result what   *)
(* it returned.  For HtmlCssUIBuilder::parse_and_build: document is the    *)
(* markup document given to the call and build the state of the call.      *)
(***************************************************************************)
VARIABLES sheet, tokens, pos, pc, selector, rules, calls,
          stylesheet, element, computed,
          result, document, build

parserVars == <<sheet, tokens, pos, pc, selector, rules, calls>>
cascadeVars == <<stylesheet, element, computed>>
builderVars == <<document, build>>
vars == <<sheet, tokens, pos, pc, selector, rules, calls,
          stylesheet, element, computed, result, document, build>>

cur == ParserState(pos, pc, selector, rules, calls)

Becomes(st) ==
    /\ pos' = st.pos
    /\ pc' = st.pc
    /\ selector' = st.selector
    /\ rules' = st.rules
    /\ calls' = st.calls
    /\ UNCHANGED <<sheet, tokens>>
    /\ UNCHANGED cascadeVars
    /\ UNCHANGED result
    /\ UNCHANGED builderVars

\* no element is being styled
NoCascade ==
    /\ stylesheet = <<>>
    /\ element = [tag |-> "", id |-> None, classes |-> <<>>]
    /\ computed = None

\* no value decoder is called alone
NoDecoder == result = None

\* parse_and_build is not called
NoBuilder ==
    /\ document = None
    /\ build = None

\* parse_stylesheet is not running
NoParser ==
    /\ sheet = <<>>
    /\ tokens = <<>>
    /\ pos = 1
    /\ pc = "idle"
    /\ selector = ""
    /\ rules = EmptyRules
    /\ calls = <<>>

\* parse_stylesheet is called on a sheet over Sels and Decls with an empty map
InitOver(Sels, Decls) ==
    /\ sheet \in SheetsOver(Sels, Decls)
    /\ tokens = Tokenize(sheet)
    /\ pos = 1
    /\ pc = "top"
    /\ selector = ""
    /\ rules = EmptyRules
    /\ calls = <<>>
    /\ NoCascade
    /\ NoDecoder
    /\ NoBuilder

\* an iteration of the top-level loop that reads a token
TopLevel ==
    /\ pc = "top"
    /\ ~AtEnd(tokens, pos)
    /\ Becomes(TopLevelStep(tokens, cur))

\* an iteration of the rule body loop
RuleBody ==
    /\ pc = "body"
    /\ Becomes(RuleBodyStep(tokens, cur))

\* the top-level loop ends at the end of the input: parse_stylesheet returns
Return ==
    /\ pc = "top"
    /\ AtEnd(tokens, pos)
    /\ Becomes(TopLevelStep(tokens, cur))

Next == TopLevel \/ RuleBody \/ Return

TagSelectors == {"div", "p"}

\* sheets with well-formed declarations and malformed values
Init ==
    InitOver(TagSelectors,
             {"width: 10px;", "height: 20px;", "width: 5em;", "width: ;"})

Spec == Init /\ [][Next]_vars

(***************************************************************************)
(* The cascade specification: compute_element_styles is called for one     *)
(* element and one style sheet.  Rule i of the sheet gives every property  *)
(* it sets the value i px, so the merged value of a property tells which   *)
(* rule supplied it.                                                       *)
(***************************************************************************)
MaxSheetRules == 3
MaxClasses == 2

CascadeSelectors == {"div", ".a", ".b", "#main"}
CascadeProps == {"width", "color"}
ClassNames == {"a", "b"}

\* CssPropertyValue::Length(value, unit)
Length(value, unit) == [t |-> "Length", n |-> value, unit |-> unit]

\* the rules a sheet may hold: a selector and the properties it sets
RuleChoices == CascadeSelectors \X (SUBSET CascadeProps \ {{}})

\* the CssStyleSheet whose rule i has the selector and the properties f[i]
StyleSheet(f) ==
    [i \in DOMAIN f |->
       [selector |-> f[i][1],
        properties |-> [q \in f[i][2] |-> Length(i, "px")]]]

\* the class lists: at most MaxClasses classes
ClassLists == UNION {[1..n -> ClassNames] : n \in 0..MaxClasses}

Elements ==
    [tag : {"div"}, id : {None, Some("main")}, classes : ClassLists]

CascadeInit ==
    /\ NoParser
    /\ NoDecoder
    /\ NoBuilder
    /\ element \in Elements
    /\ \E n \in 0..MaxSheetRules :
         \E f \in [1..n -> RuleChoices] : stylesheet = StyleSheet(f)
    /\ computed = None

\* UIElement::from_html_element calls compute_element_styles
ComputeElementStyles ==
    /\ ~computed.some
    /\ computed' = Some(compute_element_styles(element.tag, element.id,
                                               element.classes, stylesheet))
    /\ UNCHANGED <<stylesheet, element>>
    /\ UNCHANGED parserVars
    /\ UNCHANGED result
    /\ UNCHANGED builderVars

CascadeNext == ComputeElementStyles

CascadeSpec == CascadeInit /\ [][CascadeNext]_vars

(***************************************************************************)
(* Other sheets given to parse_stylesheet.                                 *)
(***************************************************************************)
\* sheets with declarations of an unrecognized property
UnknownInit ==
    InitOver(TagSelectors,
             {"width: 10px;", "height: 20px;", "unknown-prop: whatever;",
              "unknown-prop: whatever"})

UnknownSpec == UnknownInit /\ [][Next]_vars

\* sheets with declarations that are no `name: value`
RuleErrorInit ==
    InitOver(TagSelectors,
             {"height: 20px;", "width 10px;", "width", "width:"})

RuleErrorSpec == RuleErrorInit /\ [][Next]_vars

\* sheets with tag, class, id and pseudo selectors
SelectorInit ==
    InitOver({"div", ".box", "#main", ":hover"},
             {"width: 10px;", "height: 20px;"})

SelectorSpec == SelectorInit /\ [][Next]_vars

\* sheets with box-edge shorthands
ShorthandInit ==
    InitOver(TagSelectors,
             {"width: 10px;", "margin: 1px 2px;", "margin: 1px 2px 3px;"})

ShorthandSpec == ShorthandInit /\ [][Next]_vars

(***************************************************************************)
(* What a sheet declares.                                                  *)
(***************************************************************************)
\* the declarations `name: value;` of a recognized property with a valid value
WellFormedDecls ==
    {"width: 10px;", "height: 20px;", "margin: 1px 2px;",
     "margin: 1px 2px 3px;", "width: 30px;", "background-color: #ff0000;"}

\* the declarations of an unrecognized property
UnknownDecls == {"unknown-prop: whatever;", "unknown-prop: whatever"}

\* the declarations that are an error inside a rule
ErrorDecls ==
    {"width: 5em;", "width: ;", "width 10px;", "width", "width:",
     "background-color: #fff;", "margin: 3px 5em;"}

\* the StyleProperties slot a declaration names
DeclField(d) ==
    CASE d \in {"height: 20px;", "height: 20px"} -> "height"
      [] d \in {"margin: 1px 2px;", "margin: 1px 2px 3px;"} -> "margin"
      [] d \in UnknownDecls -> "unknown-prop"
      [] d \in {"background-color: #ff0000;", "background-color: #fff;"} ->
           "background_color"
      [] OTHER -> "width"

\* the slot content a well-formed declaration stands for
DeclValue(d) ==
    CASE d = "width: 10px;" -> Some(Px(10))
      [] d = "height: 20px;" -> Some(Px(20))
      [] d = "margin: 1px 2px;" ->
           [top |-> Px(1), bottom |-> Px(1), left |-> Px(2), right |-> Px(2)]
      [] d = "margin: 1px 2px 3px;" ->
           [top |-> Px(1), left |-> Px(2), right |-> Px(2), bottom |-> Px(3)]
      [] d = "width: 30px;" -> Some(Px(30))
      [] d = "background-color: #ff0000;" -> Some(Rgba(255, 0, 0, 255))

\* the places <<i, j>> of the declarations of the sheet
Places == {<<i, j>> \in (1..Len(sheet)) \X (1..MaxDecls + 1) :
             j <= Len(sheet[i].decls)}
DeclAt(x) == sheet[x[1]].decls[x[2]]
SelAt(x) == sheet[x[1]].sel
Before(x, y) == x[1] < y[1] \/ (x[1] = y[1] /\ x[2] < y[2])

\* the cursor position of the first token of the declaration at place x
DeclStart(x) ==
    Len(Tokenize(SubSeq(sheet, 1, x[1] - 1))) + 1
      + Len(SelectorTokens(SelAt(x))) + 1
      + Len(Flatten([j \in 1..x[2] - 1 |-> DeclTokens(sheet[x[1]].decls[j])]))
      + 1

\* the value the sheet gives slot f of selector sel: that of the last
\* well-formed declaration of f under sel (defined where there is one)
Declaring(sel, f) ==
    {x \in Places : SelAt(x) = sel /\ DeclAt(x) \in WellFormedDecls
                      /\ DeclField(DeclAt(x)) = f}
DeclaredValue(sel, f) ==
    DeclValue(DeclAt(CHOOSE x \in Declaring(sel, f) :
                       \A y \in Declaring(sel, f) : y = x \/ Before(y, x)))

\* the declaration at place x is in the RuleTable under its own selector
Recorded(x) ==
    /\ SelAt(x) \in DOMAIN rules
    /\ rules[SelAt(x)][DeclField(DeclAt(x))]
         = DeclaredValue(SelAt(x), DeclField(DeclAt(x)))

\* parse_rule was called at the start of the declaration at place x and
\* returned one of kinds
Returned(x, kinds) ==
    \E n \in 1..Len(calls) : calls[n].at = DeclStart(x) /\ calls[n].kind \in kinds

\* the text at cursor p is `name :` with a recognized / unrecognized name
NamesProperty(p) ==
    /\ p + 1 <= Len(tokens)
    /\ tokens[p].k = "Ident"
    /\ tokens[p + 1].k = "Colon"
RecognizedAt(p) ==
    NamesProperty(p) /\ ToLowercase(tokens[p].s) \in RecognizedProps
UnrecognizedAt(p) ==
    NamesProperty(p) /\ ToLowercase(tokens[p].s) \notin RecognizedProps

(***************************************************************************)
(* C1.  A declaration of a recognized property for which parse_rule        *)
(* returns InvalidToken or UnexpectedToken (a malformed value) is dropped  *)
(* alone: every later well-formed declaration of the same rule body is     *)
(* recorded under the rule's selector.                                     *)
(***************************************************************************)
C1_MalformedValueDroppedAlone ==
    pc = "done" =>
      \A x \in Places : \A y \in Places :
        ( /\ x[1] = y[1]
          /\ x[2] < y[2]
          /\ RecognizedAt(DeclStart(x))
          /\ Returned(x, {"InvalidToken", "UnexpectedToken"})
          /\ DeclAt(y) \in WellFormedDecls )
        => Recorded(y)

(***************************************************************************)
(* C2.  For a declaration of an unrecognized property parse_rule returns   *)
(* Ok and moves the cursor no further than past the next semicolon or      *)
(* closing brace, and the RuleTable at the end is the one of the sheet     *)
(* without that declaration.                                               *)
(***************************************************************************)
\* the cursor of the first semicolon or closing brace at or after p
NextBoundary(p) ==
    CHOOSE i \in p..Len(tokens) + 1 :
      /\ i <= Len(tokens) => tokens[i].k \in {"Semicolon", "CloseCurlyBrace"}
      /\ \A j \in p..i - 1 : tokens[j].k \notin {"Semicolon", "CloseCurlyBrace"}

\* the sheet without the declaration at place x
Without(x) ==
    [sheet EXCEPT ![x[1]].decls =
       SubSeq(@, 1, x[2] - 1) \o SubSeq(@, x[2] + 1, Len(@))]

C2_UnknownPropertySkipped ==
    /\ \A n \in 1..Len(calls) :
         UnrecognizedAt(calls[n].at) =>
           /\ calls[n].kind = "Ok"
           /\ calls[n].end <= NextBoundary(calls[n].at) + 1
    /\ pc = "done" =>
         \A x \in Places :
           DeclAt(x) \in UnknownDecls =>
             rules = parse_stylesheet(Tokenize(Without(x)), EmptyRules).rules

(***************************************************************************)
(* C3.  An error inside one rule never prevents a later rule from being    *)
(* recorded: every declaration of a well-formed rule that follows is in    *)
(* the RuleTable under its own selector, and none is attributed to the     *)
(* selector of the earlier rule.                                           *)
(***************************************************************************)
HasError(i) == \E j \in 1..Len(sheet[i].decls) : sheet[i].decls[j] \in ErrorDecls
WellFormedRule(i) ==
    \A j \in 1..Len(sheet[i].decls) : sheet[i].decls[j] \in WellFormedDecls
\* some declaration under selector sel names slot f
Names(sel, f) == \E x \in Places : SelAt(x) = sel /\ DeclField(DeclAt(x)) = f

C3_LaterRuleRecorded ==
    pc = "done" =>
      \A x \in Places : \A i \in 1..Len(sheet) :
        (i < x[1] /\ HasError(i) /\ WellFormedRule(x[1])) => Recorded(x)

C3_NotAttributedToEarlierRule ==
    pc = "done" =>
      \A x \in Places : \A i \in 1..Len(sheet) :
        ( /\ i < x[1]
          /\ HasError(i)
          /\ WellFormedRule(x[1])
          /\ sheet[i].sel # SelAt(x)
          /\ ~Names(sheet[i].sel, DeclField(DeclAt(x)))
          /\ sheet[i].sel \in DOMAIN rules )
        => rules[sheet[i].sel][DeclField(DeclAt(x))]
             = StylePropertiesDefault[DeclField(DeclAt(x))]

C3_ErrorKeepsLaterRules == C3_LaterRuleRecorded /\ C3_NotAttributedToEarlierRule

(***************************************************************************)
(* C4.  After parse_stylesheet on a sheet of well-formed rules only, the   *)
(* RuleTable entry of each selector holds every declared property, from    *)
(* the first declaration of the body to the last, with its value.          *)
(***************************************************************************)
C4_WellFormedSheetRecorded ==
    (pc = "done" /\ \A i \in 1..Len(sheet) : WellFormedRule(i)) =>
      \A x \in Places : Recorded(x)

(***************************************************************************)
(* C5.  A rule written with a class selector `.name` or an id selector     *)
(* `#name` is recorded under the key `.name` or `#name`: a lookup of the   *)
(* RuleTable with that string finds the declarations of the rule.          *)
(***************************************************************************)
C5_ClassAndIdRulesRecorded ==
    pc = "done" =>
      \A x \in Places :
        (SelAt(x) \in {".box", "#main"} /\ WellFormedRule(x[1])) => Recorded(x)

(***************************************************************************)
(* C9.  For a box-edge property declared with exactly two valid lengths    *)
(* a b, parse_ui_rect yields top = a, bottom = a, left = b, right = b.     *)
(* C10. With exactly three valid lengths a b c it yields top = a,          *)
(* left = b, right = b, bottom = c.                                        *)
(* Both are stated of the slot that the last call of parse_rule assigned.  *)
(***************************************************************************)
\* the last call of parse_rule was at a declaration d, and left the slot of
\* d as the sheet declares it
LastCallYields(d) ==
    LET c == calls[Len(calls)] IN
    (\E x \in Places : DeclAt(x) = d /\ DeclStart(x) = c.at) =>
      /\ c.kind = "Ok"
      /\ rules[c.sel][DeclField(d)] = DeclValue(d)

C9_TwoValuesVerticalHorizontal ==
    calls # <<>> => LastCallYields("margin: 1px 2px;")

C10_ThreeValuesTopHorizontalBottom ==
    calls # <<>> => LastCallYields("margin: 1px 2px 3px;")

(***************************************************************************)
(* The rules of the style sheet that match the element.                    *)
(***************************************************************************)
Sets(i, q) == q \in DOMAIN stylesheet[i].properties
ValueOf(i, q) == stylesheet[i].properties[q]
RuleIds == 1..Len(stylesheet)

\* the places in the class attribute of a class with a rule setting q
ClassPlaces(q) ==
    {k \in 1..Len(element.classes) :
       \E i \in RuleIds :
         stylesheet[i].selector = "." \o element.classes[k] /\ Sets(i, q)}

\* the rules setting q that match the element's tag, one of its classes, its id
TagRules(q) ==
    {i \in RuleIds : stylesheet[i].selector = element.tag /\ Sets(i, q)}
ClassRules(q) ==
    {i \in RuleIds :
       /\ \E k \in 1..Len(element.classes) :
            stylesheet[i].selector = "." \o element.classes[k]
       /\ Sets(i, q)}
IdRules(q) ==
    {i \in RuleIds :
       /\ element.id.some
       /\ stylesheet[i].selector = "#" \o element.id.v
       /\ Sets(i, q)}

\* the merged map gives q the value that one of the rules in S sets
MergedFrom(q, S) ==
    /\ q \in DOMAIN computed.v
    /\ \E i \in S : computed.v[q] = ValueOf(i, q)

(***************************************************************************)
(* C6.  compute_element_styles gives id rules precedence over class rules  *)
(* and class rules over tag rules, whatever the order of the rules in the  *)
(* sheet: a property set by a rule matching the id has an id rule's value; *)
(* a property set by no id rule but by a rule matching a class has a class *)
(* rule's value.                                                           *)
(***************************************************************************)
C6_IdOverClassOverTag ==
    computed.some =>
      \A q \in CascadeProps :
        /\ IdRules(q) # {} => MergedFrom(q, IdRules(q))
        /\ (IdRules(q) = {} /\ ClassRules(q) # {}) => MergedFrom(q, ClassRules(q))

\* the id rule comes first in the sheet, before a class rule and a tag rule
\* that set the same property, and its value is the merged one
C6_Witness ==
    /\ computed.some
    /\ \E q \in CascadeProps :
         \E i \in IdRules(q) : \E j \in ClassRules(q) : \E k \in TagRules(q) :
           i < j /\ j < k /\ computed.v[q] = ValueOf(i, q)

(***************************************************************************)
(* C7.  The merge is field by field: the keys of the merged map are        *)
(* exactly the property keys of the rules matching the element's tag,      *)
(* classes and id, and each key has a value that a matching rule set.      *)
(***************************************************************************)
MatchingRules(q) == TagRules(q) \cup ClassRules(q) \cup IdRules(q)

C7_FieldByFieldMerge ==
    computed.some =>
      /\ DOMAIN computed.v = {q \in CascadeProps : MatchingRules(q) # {}}
      /\ \A q \in DOMAIN computed.v : MergedFrom(q, MatchingRules(q))

\* a tag rule sets one property only, a later class rule another one only,
\* and the merged map has both
C7_Witness ==
    /\ computed.some
    /\ \E i \in RuleIds : \E j \in RuleIds :
         /\ i < j
         /\ stylesheet[i].selector = element.tag
         /\ j \in ClassRules("width")
         /\ DOMAIN stylesheet[i].properties = {"color"}
         /\ DOMAIN stylesheet[j].properties = {"width"}
         /\ DOMAIN computed.v = {"color", "width"}

(***************************************************************************)
(* C8.  When two classes of the element each have a rule setting the same  *)
(* property and no id rule sets it, the merged value is the one of the     *)
(* class written later in the class attribute, whatever the order of the   *)
(* two rules in the sheet.                                                 *)
(***************************************************************************)
LastPlace(S) == CHOOSE k \in S : \A m \in S : m <= k

C8_LaterClassWins ==
    computed.some =>
      \A q \in CascadeProps :
        ( /\ IdRules(q) = {}
          /\ Cardinality({element.classes[k] : k \in ClassPlaces(q)}) >= 2 )
        => MergedFrom(q, {i \in ClassRules(q) :
                            stylesheet[i].selector
                              = "." \o element.classes[LastPlace(ClassPlaces(q))]})

\* the rule of the class written later comes first in the sheet, and its
\* value is the merged one
C8_Witness ==
    /\ computed.some
    /\ Len(element.classes) = 2
    /\ element.classes[1] # element.classes[2]
    /\ \E q \in CascadeProps : \E i \in RuleIds : \E j \in RuleIds :
         /\ i < j
         /\ IdRules(q) = {}
         /\ stylesheet[i].selector = "." \o element.classes[2]
         /\ stylesheet[j].selector = "." \o element.classes[1]
         /\ Sets(i, q) /\ Sets(j, q)
         /\ computed.v[q] = ValueOf(i, q)

(***************************************************************************)
(* The value decoders called alone: parse_value, parse_color or            *)
(* parse_ui_rect is called once with the cursor at the first token of      *)
(* tokens; result is the decoder called and what it returned.              *)
(***************************************************************************)
MaxValueTokens == 5

\* the tokens of a box-edge value list and what may follow it
RectTokens ==
    {Dimension(1, "px"), Dimension(2, "px"), Dimension(3, "px"),
     Dimension(4, "px"), Dimension(5, "em"), Semicolon, CloseCurlyBrace}

\* one token of every kind the decoders tell apart; the hash tokens are
\* #ff0000, #ff000080, #fff, #12345, #12345g and #1234567g
ValueTokens ==
    {Dimension(1, "px"), Dimension(1, "PX"), Dimension(2, "%"),
     Dimension(5, "em"), Number(4), Percentage(50),
     Ident("auto"), Ident("AUTO"), Ident("undefined"), Ident("red"),
     Ident("transparent"), Ident("bogus"), QuotedString("red"),
     Hash(<<15, 15, 0, 0, 0, 0>>), Hash(<<15, 15, 0, 0, 0, 0, 8, 0>>),
     Hash(<<15, 15, 15>>), Hash(<<1, 2, 3, 4, 5>>),
     Hash(<<1, 2, 3, 4, 5, NotHex>>),
     Hash(<<1, 2, 3, 4, 5, 6, 7, NotHex>>),
     Colon, Semicolon, CloseCurlyBrace, OpenCurlyBrace, Comma, Delim(".")}

DecoderInit ==
    /\ sheet = <<>>
    /\ \E n \in 0..MaxValueTokens :
         \E f \in [1..n -> RectTokens]
                    \cup (IF n = 1 THEN [1..1 -> ValueTokens] ELSE {}) :
           tokens = f
    /\ pos = 1
    /\ pc = "decode"
    /\ selector = ""
    /\ rules = EmptyRules
    /\ calls = <<>>
    /\ NoCascade
    /\ NoDecoder
    /\ NoBuilder

\* what is kept of a call of the decoder fn that returned r
Decoded(fn, r) ==
    Some([fn |-> fn, kind |-> r.kind, pos |-> r.pos, val |-> r.val])

\* a decoder is called and returns; nothing else changes
DecoderFrame ==
    /\ pc' = "decoded"
    /\ UNCHANGED <<sheet, tokens, pos, selector, rules, calls>>
    /\ UNCHANGED cascadeVars
    /\ UNCHANGED builderVars

ParseValue ==
    /\ pc = "decode"
    /\ result' = Decoded("parse_value", parse_value(tokens, 1))
    /\ DecoderFrame

ParseColor ==
    /\ pc = "decode"
    /\ result' = Decoded("parse_color", parse_color(tokens, 1))
    /\ DecoderFrame

ParseUiRect ==
    /\ pc = "decode"
    /\ result' = Decoded("parse_ui_rect", parse_ui_rect(tokens, 1))
    /\ DecoderFrame

DecoderNext == ParseValue \/ ParseColor \/ ParseUiRect

DecoderSpec == DecoderInit /\ [][DecoderNext]_vars

(***************************************************************************)
(* What a value list stands for.                                           *)
(***************************************************************************)
\* the token is a valid length, and the value it stands for
ValidLength(t) == t.k = "Dimension" /\ t.s = "px"
LengthOf(t) == Px(t.n)

\* the input begins with exactly n valid lengths
ExactlyLengths(n) ==
    /\ Len(tokens) >= n
    /\ \A i \in 1..n : ValidLength(tokens[i])
    /\ Len(tokens) > n => ~ValidLength(tokens[n + 1])

\* the input is n valid lengths followed by ';' or '}'
Terminated(n) ==
    /\ ExactlyLengths(n)
    /\ Len(tokens) > n
    /\ tokens[n + 1].k \in {"Semicolon", "CloseCurlyBrace"}

\* the decoder fn was called and has returned
Called(fn) == result.some /\ result.v.fn = fn

C12_FourValuesClockwise ==
    (Called("parse_ui_rect") /\ ExactlyLengths(4)) =>
      /\ result.v.kind = "Ok"
      /\ result.v.val = [top |-> LengthOf(tokens[1]),
                         right |-> LengthOf(tokens[2]),
                         bottom |-> LengthOf(tokens[3]),
                         left |-> LengthOf(tokens[4])]

\* `1px 2px 3px 4px;`: four different values
C12_Witness ==
    /\ Called("parse_ui_rect")
    /\ tokens = <<Dimension(1, "px"), Dimension(2, "px"), Dimension(3, "px"),
                  Dimension(4, "px"), Semicolon>>
    /\ result.v.kind = "Ok"
    /\ result.v.val.left = Px(4)
    /\ result.v.val.top = Px(1)

(***************************************************************************)
(* C13.  The value decoders never panic: called on an input that is not    *)
(* empty, parse_value, parse_color and parse_ui_rect return a value or an  *)
(* error of kind InvalidToken or UnexpectedToken.                          *)
(***************************************************************************)
C13_DecodersNeverPanic ==
    (result.some /\ tokens # <<>>) =>
      result.v.kind \in {"Ok", "InvalidToken", "UnexpectedToken"}

(***************************************************************************)
(* C15.  parse_value on a first token t: a dimension with unit px is t's   *)
(* number in pixels, with unit % in percent, with another unit             *)
(* InvalidToken; a number is pixels; the identifiers auto and undefined    *)
(* are Auto and Undefined; any other token is UnexpectedToken.             *)
(***************************************************************************)
\* parse_value returned the value v / an error of kind k
Yields(v) == result.v.kind = "Ok" /\ result.v.val = v
Fails(k) == result.v.kind = k

C15_ParseValueMapping ==
    (Called("parse_value") /\ tokens # <<>>) =>
      LET t == tokens[1] IN
      CASE t.k = "Dimension" /\ ToLowercase(t.s) = "px" -> Yields(Px(t.n))
        [] t.k = "Dimension" /\ ToLowercase(t.s) = "%" -> Yields(Percent(t.n))
        [] t.k = "Dimension" /\ ToLowercase(t.s) \notin {"px", "%"} ->
             Fails("InvalidToken")
        [] t.k = "Number" -> Yields(Px(t.n))
        [] t.k = "Ident" /\ ToLowercase(t.s) = "auto" -> Yields(ValAuto)
        [] t.k = "Ident" /\ ToLowercase(t.s) = "undefined" ->
             Yields(ValUndefined)
        [] OTHER -> Fails("UnexpectedToken")

\* C15 as amended: any other identifier is InvalidToken, a percentage token
\* is its number in percent, and any other token is UnexpectedToken.
C15_ParseValueMappingAmended ==
    (Called("parse_value") /\ tokens # <<>>) =>
      LET t == tokens[1] IN
      CASE t.k = "Dimension" /\ ToLowercase(t.s) = "px" -> Yields(Px(t.n))
        [] t.k = "Dimension" /\ ToLowercase(t.s) = "%" -> Yields(Percent(t.n))
        [] t.k = "Dimension" /\ ToLowercase(t.s) \notin {"px", "%"} ->
             Fails("InvalidToken")
        [] t.k = "Number" -> Yields(Px(t.n))
        [] t.k = "Ident" /\ ToLowercase(t.s) = "auto" -> Yields(ValAuto)
        [] t.k = "Ident" /\ ToLowercase(t.s) = "undefined" ->
             Yields(ValUndefined)
        [] t.k = "Ident" /\ ToLowercase(t.s) \notin {"auto", "undefined"} ->
             Fails("InvalidToken")
        [] t.k = "Percentage" -> Yields(Percent(t.n))
        [] OTHER -> Fails("UnexpectedToken")

\* the identifier `bogus` was given to parse_value, which returned
\* InvalidToken
C15_Witness ==
    /\ Called("parse_value")
    /\ tokens = <<Ident("bogus")>>
    /\ Fails("InvalidToken")

(***************************************************************************)
(* Sheets with background-color declarations: the hash #ff0000 of length 6 *)
(* and the hash #fff of length 3.                                          *)
(***************************************************************************)
ColorInit ==
    InitOver(TagSelectors,
             {"width: 10px;", "height: 20px;", "background-color: #ff0000;",
              "background-color: #fff;"})

ColorSpec == ColorInit /\ [][Next]_vars

(***************************************************************************)
(* C14.  For a background-color declaration whose hash token has a length  *)
(* other than 6 or 8 parse_rule returns InvalidToken, and that declaration *)
(* alone is dropped: every well-formed declaration of the same rule,       *)
(* before and after it, is recorded with its own value (a hash of length 6 *)
(* as a colour with alpha 1).                                              *)
(***************************************************************************)
C14_BadHashDroppedAlone ==
    /\ \A n \in 1..Len(calls) :
         (\E x \in Places : /\ DeclAt(x) = "background-color: #fff;"
                            /\ DeclStart(x) = calls[n].at)
           => calls[n].kind = "InvalidToken"
    /\ pc = "done" =>
         \A x \in Places : \A y \in Places :
           ( /\ x[1] = y[1]
             /\ DeclAt(x) = "background-color: #fff;"
             /\ DeclAt(y) \in WellFormedDecls )
           => Recorded(y)

(***************************************************************************)
(* Sheets that declare width more than once, with different values, in one *)
(* body or in several blocks of the same selector.                         *)
(***************************************************************************)
OverrideInit ==
    InitOver(TagSelectors,
             {"width: 10px;", "width: 30px;", "height: 20px;", "width: 5em;"})

OverrideSpec == OverrideInit /\ [][Next]_vars

(***************************************************************************)
(* C16.  After parse_stylesheet the RuleTable holds, for every selector    *)
(* and property, the value of the last successfully decoded declaration of *)
(* that property under that selector anywhere in the sheet, in the same    *)
(* body or in several blocks with the same selector; a later block that    *)
(* does not declare the property keeps the earlier value.                  *)
(***************************************************************************)
C16_LastDeclarationWins ==
    pc = "done" =>
      \A sel \in TagSelectors : \A f \in {"width", "height"} :
        Declaring(sel, f) # {} =>
          /\ sel \in DOMAIN rules
          /\ rules[sel][f] = DeclaredValue(sel, f)

(***************************************************************************)
(* Sheets with at-rules.  An item of the sheet is an ordinary rule or an   *)
(* at-rule: `@import "x";` (ended by a semicolon, no block), `@font-face   *)
(* { decls }` (a block of declarations) or `@media screen { p { d1 }       *)
(* p { d2 } .. }` (a block with one nested rule block per declaration).    *)
(***************************************************************************)
AtRuleNames == {"@import", "@font-face", "@media"}

AtRuleTokens(r) ==
    CASE r.sel = "@import" ->
           <<AtKeyword("import"), QuotedString("x"), Semicolon>>
      [] r.sel = "@font-face" ->
           <<AtKeyword("font-face"), OpenCurlyBrace>>
             \o Flatten([i \in 1..Len(r.decls) |-> DeclTokens(r.decls[i])])
             \o <<CloseCurlyBrace>>
      [] r.sel = "@media" ->
           <<AtKeyword("media"), Ident("screen"), OpenCurlyBrace>>
             \o Flatten([i \in 1..Len(r.decls) |->
                           RuleTokens([sel |-> "p",
                                       decls |-> <<r.decls[i]>>])])
             \o <<CloseCurlyBrace>>

ItemTokens(r) ==
    IF r.sel \in AtRuleNames THEN AtRuleTokens(r) ELSE RuleTokens(r)

TokenizeItems(sh) == Flatten([i \in 1..Len(sh) |-> ItemTokens(sh[i])])

IsAtRule(r) == r.sel \in AtRuleNames

\* the sheet with its at-rules removed
WithoutAtRules(sh) == SelectSeq(sh, LAMBDA r : ~IsAtRule(r))

AtRuleDecls == {"width: 10px;", "height: 20px;"}

AtRuleBodies == UNION {[1..n -> AtRuleDecls] : n \in 0..MaxDecls}

AtRuleItems ==
    [sel : TagSelectors \cup {"@font-face", "@media"}, decls : AtRuleBodies]
      \cup {[sel |-> "@import", decls |-> <<>>]}

\* parse_stylesheet is called on a sheet with at-rules with an empty map
AtRuleInit ==
    /\ \E n \in 0..MaxRules : \E f \in [1..n -> AtRuleItems] : sheet = f
    /\ tokens = TokenizeItems(sheet)
    /\ pos = 1
    /\ pc = "top"
    /\ selector = ""
    /\ rules = EmptyRules
    /\ calls = <<>>
    /\ NoCascade
    /\ NoDecoder
    /\ NoBuilder

AtRuleSpec == AtRuleInit /\ [][Next]_vars

(***************************************************************************)
(* C17.  An at-rule is ignored: parse_stylesheet leaves the RuleTable that *)
(* it leaves for the same sheet with the at-rules removed, whether the     *)
(* at-rule ends with a block (possibly with nested rule blocks) or with a  *)
(* semicolon and no block.                                                 *)
(***************************************************************************)
C17_AtRuleIgnored ==
    pc = "done" =>
      rules = parse_stylesheet(Tokenize(WithoutAtRules(sheet)),
                               EmptyRules).rules

(***************************************************************************)
(* HtmlCssUIBuilder::parse_and_build (html_ui_builder).  A markup document *)
(* is given by its well-formedness, the texts of its <style> elements and  *)
(* the elements of its body.  A style text is a sequence of rules, each a  *)
(* selector text and a sequence of declaration texts.                      *)
(***************************************************************************)
MaxStyles == 2
MaxBody == 1

\* declarations lightningcss parses into a Property: two it has a variant
\* from_lightningcss reads, a colour, and one from_lightningcss passes over
SupportedCssDecls == {"width: 10px", "height: 20px", "background-color: #ff0000"}
UnsupportedCssDecls == {"flex-direction: row"}
\* a declaration without a colon, and a selector that is no selector
MalformedCssDecls == {"width 10px"}
MalformedSelectors == {"..{"}

CssDecls == SupportedCssDecls \cup UnsupportedCssDecls \cup MalformedCssDecls
CssSelectors == {"div", ".a", "#main"}

CssRuleTexts ==
    [selector : CssSelectors,
     decls : UNION {[1..n -> CssDecls] : n \in 0..1}]
      \cup {[selector |-> x, decls |-> <<>>] : x \in MalformedSelectors}

\* the text of one <style> element: no rule or one
StyleTexts == UNION {[1..n -> CssRuleTexts] : n \in 0..1}

\* the nodes of a document tree: an element with its attributes and its
\* child nodes in DOM order, and a text node with its characters
Element(tag, id, classes, nodes) ==
    [kind |-> "element", tag |-> tag, id |-> id, classes |-> classes,
     text |-> <<>>, nodes |-> nodes]
TextNode(chars) ==
    [kind |-> "text", tag |-> "", id |-> None, classes |-> <<>>,
     text |-> chars, nodes |-> <<>>]

BodyElements ==
    {Element("div", None, <<>>, <<>>),
     Element("span", None, <<>>, <<>>),
     Element("span", None, <<"a">>, <<>>),
     Element("div", Some("main"), <<"a">>, <<>>)}

HtmlDocument(markup, styles, els) ==
    [markup |-> markup, styles |-> styles, body |-> els]

\* Html::parse_document(html_content): the parse has no failure outcome; for
\* markup that is not well-formed it yields the recovered tree
Html_parse_document(html) == html

\* extract_css: the inner text of every <style> element, each followed by a
\* newline
extract_css(doc) ==
    [rules |-> Flatten(doc.styles), newlines |-> Len(doc.styles)]

\* css_content.is_empty()
IsEmptyCss(css) == css.rules = <<>> /\ css.newlines = 0

\* the Property lightningcss parses a declaration text into
Property(d) ==
    CASE d = "width: 10px" -> [p |-> "Width", size |-> Px(10)]
      [] d = "height: 20px" -> [p |-> "Height", size |-> Px(20)]
      [] d = "background-color: #ff0000" ->
           [p |-> "BackgroundColor", color |-> Rgba(255, 0, 0, 255)]
      [] d = "flex-direction: row" -> [p |-> "FlexDirection"]

\* a component of a lightningcss selector
Component(c, name) == [c |-> c, name |-> name]

\* the selector list lightningcss parses a selector text into: one selector
\* per comma-separated part, each a sequence of components
ParseSelectorList(text) ==
    CASE text = "div" -> <<<<Component("LocalName", "div")>>>>
      [] text = ".a" -> <<<<Component("Class", "a")>>>>
      [] text = "#main" -> <<<<Component("Id", "main")>>>>
      [] text = "h1" -> <<<<Component("LocalName", "h1")>>>>
      [] text = ".button" -> <<<<Component("Class", "button")>>>>
      [] text = "h1, h2" ->
           <<<<Component("LocalName", "h1")>>, <<Component("LocalName", "h2")>>>>
      [] text = ".button:hover" ->
           <<<<Component("Class", "button"),
               Component("PseudoClass", "hover")>>>>

\* the rule of a lightningcss StyleSheet for a rule text
StyleRule(r) ==
    [selectors |-> ParseSelectorList(r.selector),
     declarations |-> [i \in 1..Len(r.decls) |-> Property(r.decls[i])]]

\* a rule text lightningcss cannot parse
MalformedRule(r) ==
    \/ r.selector \in MalformedSelectors
    \/ \E i \in 1..Len(r.decls) : r.decls[i] \in MalformedCssDecls

\* StyleSheet::parse(css, ParserOptions::default()): without error recovery
\* the first rule or declaration that cannot be parsed is the Err of the call
StyleSheet_parse(css) ==
    IF \E i \in 1..Len(css.rules) : MalformedRule(css.rules[i])
    THEN [kind |-> "Err", v |-> <<>>]
    ELSE [kind |-> "Ok",
          v |-> [i \in 1..Len(css.rules) |-> StyleRule(css.rules[i])]]

\* CssPropertyValue::Color(color)
CssColor(c) == [t |-> "Color", c |-> c]

\* extract_size_value: a pixel size is read off the debug text of the Size;
\* any other size ends in the fallback (100.0, "px")
extract_size_value(size) ==
    IF size.t = "Px" THEN Length(size.n, "px") ELSE Length(100, "px")

\* the match of from_lightningcss on one declaration
InsertProperty(properties, decl) ==
    CASE decl.p = "BackgroundColor" ->
           InsertAll(properties,
                     [q \in {"background-color"} |-> CssColor(decl.color)])
      [] decl.p = "Width" ->
           InsertAll(properties,
                     [q \in {"width"} |-> extract_size_value(decl.size)])
      [] decl.p = "Height" ->
           InsertAll(properties,
                     [q \in {"height"} |-> extract_size_value(decl.size)])
      [] OTHER -> properties

RECURSIVE InsertProperties(_, _, _)
InsertProperties(properties, decls, i) ==
    IF i > Len(decls) THEN properties
    ELSE InsertProperties(InsertProperty(properties, decls[i]), decls, i + 1)

\* the text lightningcss prints for a component
ComponentToString(component) ==
    CASE component.c = "Class" -> "." \o component.name
      [] component.c = "Id" -> "#" \o component.name
      [] component.c = "PseudoClass" -> ":" \o component.name
      [] OTHER -> component.name

\* the text lightningcss prints for a selector, from component i on
RECURSIVE SelectorToString(_, _)
SelectorToString(sel, i) ==
    IF i > Len(sel) THEN ""
    ELSE ComponentToString(sel[i]) \o SelectorToString(sel, i + 1)

\* style_rule.selectors.to_string(): the selectors joined by ", ", from
\* selector i on
RECURSIVE SelectorListToString(_, _)
SelectorListToString(list, i) ==
    IF i > Len(list) THEN ""
    ELSE IF i = Len(list) THEN SelectorToString(list[i], 1)
    ELSE SelectorToString(list[i], 1) \o ", "
           \o SelectorListToString(list, i + 1)

\* CssStyleSheet::from_lightningcss(stylesheet) of css.rs
from_lightningcss(ss) ==
    [i \in 1..Len(ss) |->
       [selector |-> SelectorListToString(ss[i].selectors, 1),
        properties |-> InsertProperties(EmptyMap, ss[i].declarations, 1)]]

\* format_css_selector of mod.rs, from component i on: classes, ids and
\* local names are printed, every other component is passed over
RECURSIVE format_css_selector(_, _)
format_css_selector(sel, i) ==
    IF i > Len(sel) THEN ""
    ELSE (IF sel[i].c \in {"Class", "Id", "LocalName"}
          THEN ComponentToString(sel[i]) ELSE "")
           \o format_css_selector(sel, i + 1)

\* `for selector in &style_rule.selectors { .. rules.push(..) }` of mod.rs
RulesOfList(rule) ==
    [k \in 1..Len(rule.selectors) |->
       [selector |-> format_css_selector(rule.selectors[k], 1),
        properties |-> InsertProperties(EmptyMap, rule.declarations, 1)]]

\* CssStyleSheet::from_lightningcss(stylesheet) of mod.rs
mod_from_lightningcss(ss) ==
    Flatten([i \in 1..Len(ss) |-> RulesOfList(ss[i])])

\* parse_css: `StyleSheet::parse(static_css, options)?`, then the conversion
parse_css_Of(parsed) ==
    IF parsed.kind = "Err" THEN [kind |-> "Err", v |-> <<>>]
    ELSE [kind |-> "Ok", v |-> from_lightningcss(parsed.v)]

parse_css(css) == parse_css_Of(StyleSheet_parse(css))

\* bevy's Node::default(): Val::Auto sizes, UiRect::DEFAULT (zero) edges
NodeDefault ==
    [width |-> ValAuto, height |-> ValAuto,
     padding |-> UiRectAll(Px(0)), margin |-> UiRectAll(Px(0)),
     flex_direction |-> "Row", justify_content |-> "Default",
     align_items |-> "Default"]

\* `if let Some(CssPropertyValue::<variant>(..)) = properties.get(name)`
GetVariant(properties, name, variant) ==
    name \in DOMAIN properties /\ properties[name].t = variant

\* a conversion that leaves the layout fields of Node::default() alone
convert_css_to_bevy_style_DefaultLayout(properties) ==
    [NodeDefault EXCEPT
       !.width = IF GetVariant(properties, "width", "Size")
                 THEN Px(properties["width"].n) ELSE NodeDefault.width,
       !.height = IF GetVariant(properties, "height", "Size")
                  THEN Px(properties["height"].n) ELSE NodeDefault.height]

\* convert_css_to_bevy_style(properties)
convert_css_to_bevy_style(properties) ==
    [width |-> IF GetVariant(properties, "width", "Size")
               THEN Px(properties["width"].n) ELSE NodeDefault.width,
     height |-> IF GetVariant(properties, "height", "Size")
                THEN Px(properties["height"].n) ELSE NodeDefault.height,
     padding |-> IF GetVariant(properties, "padding", "Rect")
                 THEN UiRectNew(properties["padding"].left,
                                properties["padding"].right,
                                properties["padding"].top,
                                properties["padding"].bottom)
                 ELSE NodeDefault.padding,
     margin |-> IF GetVariant(properties, "margin", "Rect")
                THEN UiRectNew(properties["margin"].left,
                               properties["margin"].right,
                               properties["margin"].top,
                               properties["margin"].bottom)
                ELSE NodeDefault.margin,
     flex_direction |-> "Column",
     justify_content |-> "Center",
     align_items |-> "Center"]

\* BackgroundColor::default() and Color::BLACK
BackgroundColorDefault == [t |-> "BackgroundColor::default()"]
ColorBlack == Rgba(0, 0, 0, 255)

\* css_color_to_bevy_color on an RGBA colour
css_color_to_bevy_color(c) == c

\* extract_background_color(properties)
extract_background_color(properties) ==
    IF GetVariant(properties, "background-color", "Color")
    THEN css_color_to_bevy_color(properties["background-color"].c)
    ELSE BackgroundColorDefault

\* a variant of extract_text_color: no colour is transparent black
extract_text_color_Transparent(properties) ==
    IF GetVariant(properties, "color", "Color")
    THEN css_color_to_bevy_color(properties["color"].c)
    ELSE Rgba(0, 0, 0, 0)

\* extract_text_color(properties)
extract_text_color(properties) ==
    IF GetVariant(properties, "color", "Color")
    THEN css_color_to_bevy_color(properties["color"].c)
    ELSE ColorBlack

\* extract_font_size(properties)
extract_font_size(properties) ==
    IF GetVariant(properties, "font-size", "Size")
    THEN properties["font-size"].n ELSE 16

\* the css_properties of from_html_element: the merged map, or an empty map
\* when there is no stylesheet
css_properties(el, ss) ==
    IF ss.some
    THEN compute_element_styles(el.tag, el.id, el.classes, ss.v)
    ELSE EmptyMap

\* `child.value().is_element()`
IsElement(node) == node.kind = "element"

\* element.text(): the characters of the text nodes below the element, its
\* descendants' included, in document order
RECURSIVE DescendantText(_)
DescendantText(node) ==
    IF node.kind = "text" THEN node.text
    ELSE Flatten([i \in 1..Len(node.nodes) |-> DescendantText(node.nodes[i])])

\* the characters of the text nodes among the children of the element
ChildText(node) ==
    Flatten([i \in 1..Len(node.nodes) |->
               IF node.nodes[i].kind = "text" THEN node.nodes[i].text
               ELSE <<>>])

\* str::trim
RECURSIVE TrimStart(_)
TrimStart(cs) ==
    IF cs # <<>> /\ Head(cs) = " " THEN TrimStart(Tail(cs)) ELSE cs
RECURSIVE TrimEnd(_)
TrimEnd(cs) ==
    IF cs # <<>> /\ cs[Len(cs)] = " "
    THEN TrimEnd(SubSeq(cs, 1, Len(cs) - 1)) ELSE cs
Trim(cs) == TrimEnd(TrimStart(cs))

\* the elements below a node in document order
RECURSIVE Descendants(_)
Descendants(node) ==
    Flatten([i \in 1..Len(node.nodes) |->
               IF IsElement(node.nodes[i])
               THEN <<node.nodes[i]>> \o Descendants(node.nodes[i])
               ELSE <<>>])

\* a variant of SelectBodyAll: the body element is selected too
SelectBodyAll_WithBody(doc) ==
    <<Element("body", None, <<>>, doc.body)>>
      \o Descendants(Element("body", None, <<>>, doc.body))

\* document.select("body *")
SelectBodyAll(doc) == Descendants(Element("body", None, <<>>, doc.body))

\* the UIElement built from an element, its text, its children and its
\* css_properties
UIElement(el, text, children, properties) ==
    [tag |-> el.tag, id |-> el.id, classes |-> el.classes,
     text |-> text, children |-> children,
     computed_style |-> convert_css_to_bevy_style(properties),
     background_color |-> extract_background_color(properties),
     text_color |-> extract_text_color(properties),
     font_size |-> extract_font_size(properties)]

\* UIElement::from_html_element(element, stylesheet)
from_html_element(el, ss) ==
    UIElement(el, Trim(DescendantText(el)), <<>>, css_properties(el, ss))

\* a variant of ElementChildren: every child node
ElementChildren_AllNodes(el) == el.nodes

\* `element.children().filter(|child| child.value().is_element())`
ElementChildren(el) == SelectSeq(el.nodes, IsElement)

\* UIElement::from_html_element_with_children(element, stylesheet)
RECURSIVE from_html_element_with_children(_, _)
MapWithChildren(els, ss) ==
    [i \in 1..Len(els) |-> from_html_element_with_children(els[i], ss)]
from_html_element_with_children(el, ss) ==
    UIElement(el, Trim(ChildText(el)),
              MapWithChildren(ElementChildren(el), ss),
              css_properties(el, ss))

\* `for element in document.select(&body_selector)`
FromEach(els, ss) == [i \in 1..Len(els) |-> from_html_element(els[i], ss)]

\* parse_html_elements(document, stylesheet)
parse_html_elements(doc, ss) == FromEach(SelectBodyAll(doc), ss)

BuildOk(els) == [kind |-> "Ok", elements |-> els]
BuildErr == [kind |-> "Err", elements |-> <<>>]

\* parse_and_build after extract_css: `Some(self.parse_css(&css_content)?)`
\* returns the Err of parse_css
BuildWith(doc, parsed) ==
    IF parsed.kind = "Err" THEN BuildErr
    ELSE BuildOk(parse_html_elements(doc, Some(parsed.v)))

\* HtmlCssUIBuilder::parse_and_build(html_content)
parse_and_build(html) ==
    IF IsEmptyCss(extract_css(Html_parse_document(html)))
    THEN BuildOk(parse_html_elements(Html_parse_document(html), None))
    ELSE BuildWith(Html_parse_document(html),
                   parse_css(extract_css(Html_parse_document(html))))

\* parse_and_build is about to be called on a document
BuilderInit ==
    /\ NoParser
    /\ NoCascade
    /\ NoDecoder
    /\ \E markup \in {"well-formed", "malformed"} :
         \E n \in 0..MaxStyles : \E styles \in [1..n -> StyleTexts] :
           \E k \in 0..MaxBody : \E els \in [1..k -> BodyElements] :
             document = Some(HtmlDocument(markup, styles, els))
    /\ build = None

\* the call of parse_and_build
ParseAndBuild ==
    /\ document.some
    /\ ~build.some
    /\ build' = Some(parse_and_build(document.v))
    /\ UNCHANGED document
    /\ UNCHANGED parserVars
    /\ UNCHANGED cascadeVars
    /\ UNCHANGED result

BuilderNext == ParseAndBuild

BuilderSpec == BuilderInit /\ [][BuilderNext]_vars

\* the style text of the document has a rule lightningcss cannot parse
CssError ==
    \E i \in 1..Len(extract_css(document.v).rules) :
      MalformedRule(extract_css(document.v).rules[i])

(***************************************************************************)
(* C18.  parse_and_build returns Err only when the markup document itself  *)
(* cannot be parsed: an error in the style text of the document's <style>  *)
(* elements never makes it return Err, the element list is returned.       *)
(***************************************************************************)
C18_ErrOnlyForMarkup ==
    build.some =>
      /\ build.v.kind = "Err" => document.v.markup = "malformed"
      /\ CssError => /\ build.v.kind = "Ok"
                     /\ Len(build.v.elements) = Len(document.v.body)

\* the stylesheet parse_and_build hands to parse_html_elements when it
\* returns Ok, and the merged property map of body element i under it
BuiltSheet ==
    IF IsEmptyCss(extract_css(document.v)) THEN None
    ELSE Some(parse_css(extract_css(document.v)).v)
Merged(i) == css_properties(document.v.body[i], BuiltSheet)
Returned_Ok == build.some /\ build.v.kind = "Ok"

(***************************************************************************)
(* C19.  The merged property map is carried into the computed style: when  *)
(* the merged map of an element holds a width (height) that                *)
(* from_lightningcss produced for a pixel declaration, the computed_style  *)
(* width (height) of the element is that pixel value, and it is auto when  *)
(* no matching rule sets the property.                                     *)
(***************************************************************************)
C19_MergedSizeCarried ==
    Returned_Ok =>
      \A i \in 1..Len(build.v.elements) : \A f \in {"width", "height"} :
        IF f \in DOMAIN Merged(i)
        THEN (Merged(i)[f].t = "Length" /\ Merged(i)[f].unit = "px")
               => build.v.elements[i].computed_style[f] = Px(Merged(i)[f].n)
        ELSE build.v.elements[i].computed_style[f] = ValAuto

\* the fully defaulted record
Defaulted(e) ==
    /\ e.computed_style.width = ValAuto
    /\ e.computed_style.height = ValAuto
    /\ e.computed_style.padding = UiRectAll(Px(0))
    /\ e.computed_style.margin = UiRectAll(Px(0))
    /\ e.background_color = BackgroundColorDefault
    /\ e.text_color = ColorBlack
    /\ e.font_size = 16

(***************************************************************************)
(* C20.  An element that matches no rule of the stylesheet, or that is     *)
(* built when the document has no stylesheet, gets a fully defaulted       *)
(* record and no failure: width and height auto, zero padding and margin,  *)
(* the default background colour, text colour black and font size 16.      *)
(***************************************************************************)
C20_UnmatchedElementDefaulted ==
    /\ (build.some /\ IsEmptyCss(extract_css(document.v))) => Returned_Ok
    /\ Returned_Ok =>
         /\ Len(build.v.elements) = Len(document.v.body)
         /\ \A i \in 1..Len(build.v.elements) :
              Merged(i) = EmptyMap => Defaulted(build.v.elements[i])

\* an element was built under a stylesheet with a rule that sets a property
\* and matches no rule of it
C20_Witness ==
    /\ Returned_Ok
    /\ BuiltSheet.some
    /\ \E k \in 1..Len(BuiltSheet.v) : BuiltSheet.v[k].properties # EmptyMap
    /\ \E i \in 1..Len(build.v.elements) :
         Merged(i) = EmptyMap /\ Defaulted(build.v.elements[i])

(***************************************************************************)
(* Element extraction.  The body of the document is a tree of elements and *)
(* text nodes; the flat mode (parse_and_build) and the hierarchical mode   *)
(* (from_html_element_with_children on the body element) are run on it.    *)
(***************************************************************************)
MaxNodes == 3

DomTexts ==
    {TextNode(<<" ">>), TextNode(<<"a">>), TextNode(<<" ", "b", " ">>)}

DomLeaves ==
    {Element("p", None, <<>>, <<>>),
     Element("span", None, <<>>, <<>>),
     Element("span", None, <<>>, <<TextNode(<<"c">>)>>)}

DomInner ==
    {Element("div", None, <<>>,
             <<TextNode(<<"a">>),
               Element("span", None, <<>>, <<TextNode(<<"c">>)>>),
               TextNode(<<" ", "b", " ">>)>>),
     Element("div", None, <<>>,
             <<Element("span", None, <<>>, <<>>),
               Element("p", None, <<>>, <<>>)>>),
     Element("ul", None, <<>>,
             <<Element("li", None, <<>>,
                       <<TextNode(<<"a">>),
                         Element("span", None, <<>>, <<TextNode(<<"c">>)>>)>>),
               TextNode(<<" ">>),
               Element("li", None, <<>>, <<>>)>>)}

DomNodes == DomTexts \cup DomLeaves \cup DomInner

\* the body element of the document
BodyElement(doc) == Element("body", None, <<>>, doc.body)

DomInit ==
    /\ NoParser
    /\ NoCascade
    /\ NoDecoder
    /\ \E n \in 0..MaxNodes : \E nodes \in [1..n -> DomNodes] :
         document = Some(HtmlDocument("well-formed", <<>>, nodes))
    /\ build = None

\* the hierarchical mode: from_html_element_with_children on the body
\* element, without a stylesheet
BuildTree ==
    /\ document.some
    /\ ~build.some
    /\ build' = Some([kind |-> "Tree",
                      elements |->
                        <<from_html_element_with_children(
                            BodyElement(document.v), None)>>])
    /\ UNCHANGED document
    /\ UNCHANGED parserVars
    /\ UNCHANGED cascadeVars
    /\ UNCHANGED result

DomNext == ParseAndBuild \/ BuildTree

DomSpec == DomInit /\ [][DomNext]_vars

Returned_Tree == build.some /\ build.v.kind = "Tree"

\* the UIElement tree ui mirrors the document below node: same tag, and the
\* children are the child elements of node, in DOM order, each mirrored
RECURSIVE Mirrors(_, _)
Mirrors(ui, node) ==
    /\ ui.tag = node.tag
    /\ Len(ui.children) = Cardinality({i \in 1..Len(node.nodes) :
                                        node.nodes[i].kind = "element"})
    /\ \A i \in 1..Len(node.nodes) :
         node.nodes[i].kind = "element" =>
           Mirrors(ui.children[Cardinality({j \in 1..i :
                                  node.nodes[j].kind = "element"})],
                   node.nodes[i])

(***************************************************************************)
(* C21.  from_html_element_with_children builds a tree that mirrors the    *)
(* document: at every node the children sequence holds exactly the node's  *)
(* child elements, in DOM child order, each built recursively, and text    *)
(* nodes never appear as children.                                         *)
(***************************************************************************)
C21_TreeMirrorsDocument ==
    Returned_Tree => Mirrors(build.v.elements[1], BodyElement(document.v))

\* a tree was built for a body with a text node between two elements, one
\* of which has element children of its own
C21_Witness ==
    /\ Returned_Tree
    /\ Len(document.v.body) = 3
    /\ document.v.body[1].tag = "ul"
    /\ document.v.body[2].kind = "text"
    /\ document.v.body[3].tag = "p"
    /\ Len(build.v.elements[1].children) = 2
    /\ Len(build.v.elements[1].children[1].children) = 2
    /\ build.v.elements[1].children[2].tag = "p"

(***************************************************************************)
(* C22.  The flat mode returns exactly one UIElement for every descendant  *)
(* element of the document's body, in document order, each with an empty   *)
(* children sequence; the body element itself is not included.             *)
(***************************************************************************)
C22_FlatModeListsDescendants ==
    Returned_Ok =>
      /\ Len(build.v.elements) = Len(Descendants(BodyElement(document.v)))
      /\ \A i \in 1..Len(build.v.elements) :
           /\ build.v.elements[i].tag
                = Descendants(BodyElement(document.v))[i].tag
           /\ build.v.elements[i].children = <<>>
           /\ build.v.elements[i].tag # "body"

\* the flat mode ran on a body whose first child has element children and
\* grandchildren: the list goes down before it goes on to the next sibling
C22_Witness ==
    /\ Returned_Ok
    /\ Len(document.v.body) = 2
    /\ document.v.body[1].tag = "ul"
    /\ document.v.body[2].tag = "p"
    /\ Len(build.v.elements) = 5
    /\ build.v.elements[2].tag = "li"
    /\ build.v.elements[3].tag = "span"
    /\ build.v.elements[5].tag = "p"

\* no character of a descendant element's text is in the text of ui or of a
\* UIElement below it: each text is the trimmed text of the node's own text
\* children
RECURSIVE OwnTextBelow(_, _)
OwnTextBelow(ui, node) ==
    /\ ui.text = Trim(ChildText(node))
    /\ \A i \in 1..Len(ui.children) :
         OwnTextBelow(ui.children[i], SelectSeq(node.nodes, IsElement)[i])

(***************************************************************************)
(* C23.  In both extraction modes the text of an extracted element is the  *)
(* node's own direct text content, trimmed of leading and trailing         *)
(* whitespace: text of a descendant element is never part of an ancestor   *)
(* element's text.                                                         *)
(***************************************************************************)
C23_TextIsOwnDirectText ==
    /\ Returned_Tree =>
         OwnTextBelow(build.v.elements[1], BodyElement(document.v))
    /\ Returned_Ok =>
         \A i \in 1..Len(build.v.elements) :
           build.v.elements[i].text
             = Trim(ChildText(Descendants(BodyElement(document.v))[i]))

(***************************************************************************)
(* Selector keys.  A style text with selector lists and pseudo-classes is  *)
(* converted by one of the two implementations of from_lightningcss, and   *)
(* the element of the document is resolved against the result.             *)
(***************************************************************************)
ListSelectors == {"h1", "h1, h2", ".button", ".button:hover"}

ListRuleTexts ==
    [selector : ListSelectors, decls : {<<"width: 10px">>, <<"height: 20px">>}]

ListElements ==
    {Element("h1", None, <<>>, <<>>),
     Element("h2", None, <<>>, <<>>),
     Element("div", None, <<"button">>, <<>>),
     Element("span", None, <<>>, <<>>)}

SelectorListInit ==
    /\ NoParser
    /\ NoDecoder
    /\ stylesheet = <<>>
    /\ element = [tag |-> "", id |-> None, classes |-> <<>>]
    /\ computed = None
    /\ \E n \in 0..MaxRules : \E text \in [1..n -> ListRuleTexts] :
         \E el \in ListElements :
           document = Some(HtmlDocument("well-formed", <<text>>, <<el>>))
    /\ build = None

\* the lightningcss StyleSheet of the document's style text
ParsedStyle == StyleSheet_parse(extract_css(document.v)).v

\* parse_css of builder.rs: the conversion of css.rs
ConvertCss ==
    /\ pc = "idle"
    /\ document.some
    /\ pc' = "css.rs"
    /\ stylesheet' = from_lightningcss(ParsedStyle)
    /\ UNCHANGED <<sheet, tokens, pos, selector, rules, calls>>
    /\ UNCHANGED <<element, computed, result>>
    /\ UNCHANGED builderVars

\* parse_css of mod.rs: the conversion of mod.rs
ConvertMod ==
    /\ pc = "idle"
    /\ document.some
    /\ pc' = "mod.rs"
    /\ stylesheet' = mod_from_lightningcss(ParsedStyle)
    /\ UNCHANGED <<sheet, tokens, pos, selector, rules, calls>>
    /\ UNCHANGED <<element, computed, result>>
    /\ UNCHANGED builderVars

\* from_html_element resolves the element against the converted sheet
ResolveElement ==
    /\ pc \in {"css.rs", "mod.rs"}
    /\ ~computed.some
    /\ element' = [tag |-> document.v.body[1].tag,
                   id |-> document.v.body[1].id,
                   classes |-> document.v.body[1].classes]
    /\ computed' = Some(css_properties(document.v.body[1], Some(stylesheet)))
    /\ UNCHANGED stylesheet
    /\ UNCHANGED parserVars
    /\ UNCHANGED result
    /\ UNCHANGED builderVars

SelectorListNext == ConvertCss \/ ConvertMod \/ ResolveElement

SelectorListSpec == SelectorListInit /\ [][SelectorListNext]_vars

\* the written rules of the document, and the rule texts that name the
\* element by its tag or by one of its classes as their complete selector
WrittenRules == document.v.styles[1]
NamesElement(text) ==
    \/ text = document.v.body[1].tag
    \/ \E c \in 1..Len(document.v.body[1].classes) :
         text = "." \o document.v.body[1].classes[c]

(***************************************************************************)
(* C24.  Every implementation of from_lightningcss produces exactly one    *)
(* rule entry per style rule, keyed by the rule's complete selector text   *)
(* as written: a selector list is not split and no part of the selector is *)
(* dropped from the key, so the cascade never applies a rule written       *)
(* `h1, h2` to an h1 element nor a rule written `.button:hover` to an      *)
(* element that merely has class button.                                   *)
(***************************************************************************)
C24_OneEntryPerRuleWholeSelector ==
    pc \in {"css.rs", "mod.rs"} =>
      /\ Len(stylesheet) = Len(WrittenRules)
      /\ \A i \in 1..Len(stylesheet) :
           stylesheet[i].selector = WrittenRules[i].selector
      /\ computed.some =>
           ((\A i \in 1..Len(WrittenRules) :
               ~NamesElement(WrittenRules[i].selector))
              => computed.v = EmptyMap)

(***************************************************************************)
(* Sheets of one rule with up to MaxDecls declarations, among them a       *)
(* malformed width and a margin whose second value is malformed, followed  *)
(* by no rule, by a rule of div or by a rule of p with an empty body.      *)
(***************************************************************************)
FrameDecls ==
    {"height: 20px;", "width: 10px;", "width: 5em;", "margin: 1px 2px;",
     "margin: 3px 5em;"}

FrameTails ==
    {<<>>,
     <<[sel |-> "div", decls |-> <<"width: 10px;", "height: 20px;">>]>>,
     <<[sel |-> "p", decls |-> <<>>]>>}

FrameInit ==
    /\ \E n \in 0..MaxDecls : \E body \in [1..n -> FrameDecls] :
         \E sel \in TagSelectors : \E tail \in FrameTails :
           sheet = <<[sel |-> sel, decls |-> body]>> \o tail
    /\ tokens = Tokenize(sheet)
    /\ pos = 1
    /\ pc = "top"
    /\ selector = ""
    /\ rules = EmptyRules
    /\ calls = <<>>
    /\ NoCascade
    /\ NoDecoder
    /\ NoBuilder

FrameSpec == FrameInit /\ [][Next]_vars

CallAtRecognized ==
    /\ pc = "body"
    /\ Len(calls') = Len(calls) + 1
    /\ RecognizedAt(calls'[Len(calls')].at)

\* the call of the step returned an error
CallFailed == calls'[Len(calls')].kind \in {"InvalidToken", "UnexpectedToken"}

\* the call of the step stopped before the end of the value: the token at
\* which it stopped is not a terminator of the declaration
ValueLeftOver ==
    /\ calls'[Len(calls')].end <= Len(tokens)
    /\ tokens[calls'[Len(calls')].end].k \notin {"Semicolon", "CloseCurlyBrace"}

\* the step modified no slot: a record it added has no slot set
SlotsKept ==
    \A sel \in DOMAIN rules' :
      rules'[sel] = IF sel \in DOMAIN rules THEN rules[sel]
                    ELSE StylePropertiesDefault

PrefixItems ==
    {[sel |-> "p", decls |-> <<"width: 10px;", "width: 5em;">>],
     [sel |-> "div", decls |-> <<"margin: 3px 5em;">>],
     [sel |-> "@import", decls |-> <<>>],
     [sel |-> "@media", decls |-> <<"width: 10px;">>]}

PrefixInit ==
    /\ \E n \in 0..MaxRules : \E f \in [1..n -> PrefixItems] :
         /\ sheet = f
         /\ \E k \in 0..Len(TokenizeItems(f)) :
              tokens = SubSeq(TokenizeItems(f), 1, k)
    /\ pos = 1
    /\ pc = "top"
    /\ selector = ""
    /\ rules = EmptyRules
    /\ calls = <<>>
    /\ NoCascade
    /\ NoDecoder
    /\ NoBuilder

PrefixSpec == PrefixInit /\ [][Next]_vars /\ WF_vars(Next)

\* a step of a loop consumes at least one token, or leaves its loop because
\* the stream is exhausted
StepConsumes ==
    \/ pos' > pos
    \/ AtEnd(tokens, pos) /\ pc' # pc

(***************************************************************************)
(* C27.  parse_stylesheet terminates on every finite token stream: each    *)
(* iteration of the top-level loop, of the rule-body loop and of every     *)
(* skip or recovery loop consumes at least one token, and the call returns *)
(* when the stream is exhausted, also when the input ends inside a rule    *)
(* body, inside a value or inside an at-rule.                              *)
(***************************************************************************)
C27_ParseStylesheetTerminates ==
    /\ [][StepConsumes]_vars
    /\ <>(pc = "done" /\ AtEnd(tokens, pos))

\* the call has returned on a stream that ends inside a value (after the
\* colon of a declaration)
C27_Witness ==
    /\ pc = "done"
    /\ tokens # <<>>
    /\ tokens[Len(tokens)].k = "Colon"
    /\ calls # <<>>

(***************************************************************************)
(* Sheets whose rule bodies are empty or hold well-formed, malformed and   *)
(* unknown declarations, and a declaration without a colon.                *)
(***************************************************************************)
EntryInit ==
    InitOver(TagSelectors,
             {"width: 10px;", "width: 5em;", "unknown-prop: whatever;",
              "width 10px;"})

EntrySpec == EntryInit /\ [][Next]_vars

\* the declaration text is a property name followed by ':'
NameThenColon(d) == d \notin {"width 10px;", "width"}

\* the places of the rule bodies of selector sel
BodyPlaces(sel) == {x \in Places : SelAt(x) = sel}

(***************************************************************************)
(* C28.  After parse_stylesheet on an empty map the RuleTable has an entry *)
(* for a selector if and only if a property name followed by ':' was read  *)
(* in one of that selector's rule bodies: a rule whose declarations are    *)
(* all unknown or malformed leaves an entry with no slot set, a rule with  *)
(* an empty body leaves no entry.                                          *)
(***************************************************************************)
C28_EntryIffPropertyRead ==
    pc = "done" =>
      \A sel \in TagSelectors :
        /\ sel \in DOMAIN rules
             <=> \E x \in BodyPlaces(sel) : NameThenColon(DeclAt(x))
        /\ (sel \in DOMAIN rules
              /\ \A x \in BodyPlaces(sel) : DeclAt(x) \notin WellFormedDecls)
             => rules[sel] = StylePropertiesDefault

\* the rule texts of the document's <style> elements
StyleRules(doc) == extract_css(doc).rules

\* the three layout fields are the container defaults of the conversion
LayoutFixed(node) ==
    /\ node.flex_direction = "Column"
    /\ node.justify_content = "Center"
    /\ node.align_items = "Center"

(***************************************************************************)
(* C29.  Every record that is built has flex_direction Column,             *)
(* justify_content Center and align_items Center in its computed style,    *)
(* and so has the conversion of every merged property map: no rule of the  *)
(* stylesheet changes these three fields.                                  *)
(***************************************************************************)
C29_LayoutFieldsFixed ==
    Returned_Ok =>
      \A i \in 1..Len(build.v.elements) :
        /\ LayoutFixed(build.v.elements[i].computed_style)
        /\ LayoutFixed(convert_css_to_bevy_style(Merged(i)))

\* an element was built under a rule that matches it and declares
\* flex-direction: row
C29_Witness ==
    /\ Returned_Ok
    /\ BuiltSheet.some
    /\ \E k \in 1..Len(StyleRules(document.v)) :
         /\ StyleRules(document.v)[k].decls = <<"flex-direction: row">>
         /\ StyleRules(document.v)[k].selector = "div"
    /\ \E i \in 1..Len(build.v.elements) :
         /\ document.v.body[i].tag = "div"
         /\ build.v.elements[i].computed_style.flex_direction = "Column"

(***************************************************************************)
(* The reload specification: load_css_system runs again and again on the   *)
(* same CssRules resource.  Every run passes the text of the asset and the *)
(* map of the resource to parse_stylesheet; the text may have changed      *)
(* between two runs.  A text is one rule of p or of div.                   *)
(***************************************************************************)
ReloadDecls == {"width: 10px;", "width: 30px;", "width: 5em;"}

ReloadSheets ==
    {<<[sel |-> sel, decls |-> body]>> :
       sel \in TagSelectors,
       body \in UNION {[1..n -> ReloadDecls] : n \in 0..MaxDecls}}

\* a reload that starts from a fresh map
ReloadRules_Cleared(rs) == EmptyRules

\* the map load_css_system passes: `&mut css_rules.rules`
ReloadRules(rs) == rs

\* CssRules::default(), before the first run
ReloadInit ==
    /\ sheet = <<>>
    /\ tokens = <<>>
    /\ pos = 1
    /\ pc = "done"
    /\ selector = ""
    /\ rules = EmptyRules
    /\ calls = <<>>
    /\ NoCascade
    /\ NoDecoder
    /\ NoBuilder

\* load_css_system with the asset loaded: parse_stylesheet is entered
LoadCss ==
    /\ pc = "done"
    /\ \E css \in ReloadSheets :
         /\ sheet' = css
         /\ tokens' = Tokenize(css)
    /\ pos' = 1
    /\ pc' = "top"
    /\ selector' = ""
    /\ rules' = ReloadRules(rules)
    /\ calls' = <<>>
    /\ UNCHANGED cascadeVars
    /\ UNCHANGED result
    /\ UNCHANGED builderVars

ReloadNext == LoadCss \/ Next

ReloadSpec == ReloadInit /\ [][ReloadNext]_vars

\* the slots of StyleProperties that are Options
OptionalSlots ==
    {f \in DOMAIN StylePropertiesDefault : StylePropertiesDefault[f] = None}

\* the step ended a parse_rule call that returned Ok
CallSucceeded ==
    /\ Len(calls') = Len(calls) + 1
    /\ calls'[Len(calls')].kind = "Ok"

\* no key is removed, no optional slot that is set becomes unset, and a set
\* slot changes only in a parse_rule call that returns Ok
MapGrows ==
    \A sel \in DOMAIN rules :
      /\ sel \in DOMAIN rules'
      /\ \A f \in OptionalSlots :
           rules[sel][f] # None =>
             /\ rules'[sel][f] # None
             /\ rules'[sel][f] # rules[sel][f] => CallSucceeded

\* parsing the text of the call that returned once more into its map
ParsedAgain == parse_stylesheet(tokens, rules).rules

(***************************************************************************)
(* C30.  Across any sequence of parse_stylesheet calls on the same rules   *)
(* map the map only grows: a selector key once present is never removed    *)
(* and an optional slot once set never returns to unset, it is only        *)
(* overwritten by a successfully decoded declaration; and parsing the same *)
(* text a second time into the map of the first parse leaves the map equal *)
(* to the result of the first parse.                                       *)
(***************************************************************************)
C30_ReloadOnlyGrows ==
    /\ [][MapGrows]_vars
    /\ [](pc = "done" => ParsedAgain = rules)

\* a text with a rule of div only was parsed into a map that held a width
\* of p from an earlier text: both are in the map
C30_Witness ==
    /\ pc = "done"
    /\ Len(sheet) = 1 /\ sheet[1].sel = "div"
    /\ "p" \in DOMAIN rules /\ rules["p"].width = Some(Px(30))
    /\ "div" \in DOMAIN rules /\ rules["div"].width = Some(Px(10))
====
